---- MODULE Spec2Model ----
(***************************************************************************)
(* ADS-B track service (src/track-service/main.py): the background         *)
(* collector (AircraftTrackCollector) with its reference-dataset cache,    *)
(* its polling loop, its feeder request and its batch persistence, the     *)
(* shutdown() handler that stops and, if need be, cancels it, and the two  *)
(* track endpoints of the query API (get_aircraft_track and                *)
(* get_bulk_tracks_timelapse) with their tier selection, ranking and       *)
(* result shaping.                                                         *)
(*                                                                         *)
(* The service runs on one asyncio event loop: code between two awaits is  *)
(* atomic, so every action below is the code from one suspension point to  *)
(* the next.  Time is a clock in hours that moves only by TimePasses.      *)
(***************************************************************************)
EXTENDS Integers, Sequences, FiniteSets, TLC

(* ---------------------------------------------------------------------- *)
(* Bounds of the model                                                     *)
(* ---------------------------------------------------------------------- *)
MaxTime == 25
MaxRows == 2
MaxErrors == 12

(* ---------------------------------------------------------------------- *)
(* Program constants                                                       *)
(* ---------------------------------------------------------------------- *)
max_consecutive_errors == 10
RefreshHours == 24
PenaltySeconds == 60
collection_interval == 5
NoTime == -1
InitialSightings == 3

\* Python's None, a key that is absent from a JSON object, a JSON null.
None == "<None>"
NoKey == "<absent>"
JsonNull == "<null>"

\* How far the clock may jump between two steps (hours).
Durations == {25}

VARIABLES running, military_database, military_db_last_updated, military_db_loading, now, pc, consecutive_errors, last_db_refresh, sleep_for, batch, aircraft_positions, aircraft_metadata, other_pc, load_exit, last_load, last_data, e2e, persisted, none_streak, cache_at_transform, upserts, initial_metadata, prev_metadata, errors_before, aircraft_tracks_1min, aircraft_tracks_5min, request, response, shutdown_pc, db_pool, feeder, interval_sleeps

vars == <<running, military_database, military_db_last_updated, military_db_loading, now, pc, consecutive_errors, last_db_refresh, sleep_for, batch, aircraft_positions, aircraft_metadata, other_pc, load_exit, last_load, last_data, e2e, persisted, none_streak, cache_at_transform, upserts, initial_metadata, prev_metadata, errors_before, aircraft_tracks_1min, aircraft_tracks_5min, request, response, shutdown_pc, db_pool, feeder, interval_sleeps>>

(* ---------------------------------------------------------------------- *)
(* str.lower() and str.upper() on the identifiers of the model             *)
(* ---------------------------------------------------------------------- *)
CaseTable == { <<"ABC123", "abc123", "ABC123">>, <<"abc123", "abc123", "ABC123">>, <<"AbC123", "abc123", "ABC123">>, <<"DEF456", "def456", "DEF456">>, <<"def456", "def456", "DEF456">>, <<"00aaaa", "00aaaa", "00AAAA">>, <<"00AAAA", "00aaaa", "00AAAA">>, <<"", "", "">> }

lower(s) == (CHOOSE t \in CaseTable : t[1] = s)[2]

upper(s) == (CHOOSE t \in CaseTable : t[1] = s)[3]

(* ---------------------------------------------------------------------- *)
(* Reference dataset (tar1090-db) and its cache                            *)
(* ---------------------------------------------------------------------- *)
\* Documents the dataset URL can serve: a JSON object, icao_hex -> info array.
DocA == { <<"abc123", <<"58-0001", "C17", "10", "Globemaster">> >>, <<"DEF456", <<"N2", "B738", "00">> >>, <<"00aaaa", <<"N3", "C172">> >> }

DocB == { <<"def456", <<"90-0001", "F16", "10">> >> }

Docs == {DocA, DocB}

\* How the download can end: 200 with a parsable body, a non-200 status,
\* asyncio.TimeoutError, any other Exception (transport error, json.loads).
LoadOutcomes == {"ok", "http_error", "timeout", "error"}

EmptyDb == [k \in {} |-> None]

UnsetCache == [none |-> TRUE, db |-> EmptyDb]

\* Lines 188-197: keep the entries flagged "10", keyed by icao_hex.upper().
ParseMilitary(db_data) == LET mil == {p \in db_data : Len(p[2]) >= 3 /\ p[2][3] = "10"} IN [k \in {upper(p[1]) : p \in mil} |-> LET p == CHOOSE q \in mil : upper(q[1]) = k IN [tail |-> p[2][1], type |-> p[2][2], flag |-> p[2][3], description |-> IF Len(p[2]) > 3 THEN p[2][4] ELSE ""]]

\* The identifiers a completed download carries: those flagged "10" in a
\* document that arrived, none when the download failed.
FlaggedKeys(outcome, db_data) == IF outcome = "ok" THEN {upper(p[1]) : p \in {q \in db_data : Len(q[2]) >= 3 /\ q[2][3] = "10"}} ELSE {}

\* Line 164: the in-progress guard.
LoadBusyIgnored == FALSE

LoadBusy == military_db_loading

\* Lines 171-173: the cache is set and younger than 24 hours.
CacheValidUnchecked == FALSE

CacheValid == /\ ~military_database.none
              /\ military_db_last_updated # NoTime
              /\ now - military_db_last_updated < RefreshHours

\* The path a call takes up to its first await.
LoadEntry == IF LoadBusy THEN "busy" ELSE IF CacheValid THEN "valid" ELSE "fetch"

\* Lines 199, 206, 212, 217: the cache a finished download installs.
InstalledUnset(outcome, db_data) == IF outcome = "ok" THEN [none |-> FALSE, db |-> ParseMilitary(db_data)] ELSE UnsetCache

InstalledStale(outcome, db_data) == IF outcome = "ok" THEN [none |-> FALSE, db |-> ParseMilitary(db_data)] ELSE military_database

Installed(outcome, db_data) == IF outcome = "ok" THEN [none |-> FALSE, db |-> ParseMilitary(db_data)] ELSE [none |-> FALSE, db |-> EmptyDb]

\* A call that returns before any await (lines 164-166 or 168-175, 221).
LoadReturnsAtOnce(entry) == /\ entry \in {"busy", "valid"}
                            /\ load_exit' = entry
                            /\ UNCHANGED <<military_database, military_db_last_updated, military_db_loading, last_load>>

\* A call that goes on to the download (line 168, then the await of line 181).
LoadStartsFetchClears(entry) == /\ entry = "fetch"
                                /\ military_db_loading' = TRUE
                                /\ military_database' = [none |-> FALSE, db |-> EmptyDb]
                                /\ UNCHANGED <<military_db_last_updated, load_exit, last_load>>

LoadStartsFetch(entry) == /\ entry = "fetch"
                          /\ military_db_loading' = TRUE
                          /\ UNCHANGED <<military_database, military_db_last_updated, load_exit, last_load>>

\* The download ends (lines 184-221): cache, timestamp, flag.
LoadFinishNoStamp(outcome, db_data) == /\ military_database' = Installed(outcome, db_data)
                                       /\ military_db_last_updated' = (IF outcome = "ok" THEN now ELSE military_db_last_updated)
                                       /\ military_db_loading' = FALSE
                                       /\ load_exit' = outcome
                                       /\ last_load' = [done |-> TRUE, keys |-> FlaggedKeys(outcome, db_data)]

LoadFinish(outcome, db_data) == /\ military_database' = Installed(outcome, db_data)
                                /\ military_db_last_updated' = now
                                /\ military_db_loading' = FALSE
                                /\ load_exit' = outcome
                                /\ last_load' = [done |-> TRUE, keys |-> FlaggedKeys(outcome, db_data)]

\* What the call returns on each of its exits (lines 166, 175, 203, 208,
\* 214, 219): True for a still valid cache and for a completed download.
LoadReturn(exit) == exit \in {"valid", "ok"}

\* Line 223-234.
is_military_aircraft(aircraft) == IF military_database.none THEN FALSE ELSE IF aircraft.hex \in {NoKey, JsonNull, ""} THEN FALSE ELSE upper(aircraft.hex) \in DOMAIN military_database.db

(* ---------------------------------------------------------------------- *)
(* Feeder snapshots                                                        *)
(* ---------------------------------------------------------------------- *)
\* One entry of the snapshot's aircraft array.  hex, lat, lon: the value, or
\* NoKey when the key is absent (hex may also be a JSON null).  The other
\* fields are read with dict.get, which gives None for an absent key.
\* alt_baro is <<>> when absent and <<feet>> when present.
Aircraft(hex, lat, lon, r, t, desc, ownOp, year, category) == [hex |-> hex, lat |-> lat, lon |-> lon, r |-> r, t |-> t, desc |-> desc, ownOp |-> ownOp, year |-> year, category |-> category, alt_baro |-> <<>>]

\* What fetch_aircraft_data returns: None, or the parsed body of a 200
\* response: {} (kind "empty"), an object without the aircraft key (kind
\* "nokey"), or an object with an aircraft array (kind "list").
NoData == [kind |-> "none", aircraft |-> <<>>]

EmptyBody == [kind |-> "empty", aircraft |-> <<>>]

NoAircraftKey == [kind |-> "nokey", aircraft |-> <<>>]

Snapshot(list) == [kind |-> "list", aircraft |-> list]

\* Python truthiness of a field value (line 298) and of the fetched data
\* (line 365, line 256).
Truthy(v) == v # None /\ v # ""

DataNotNone(data) == data.kind # "none"

DataTruthy(data) == data.kind \in {"nokey", "list"}

(* ---------------------------------------------------------------------- *)
(* store_positions: the transform (lines 256-312)                          *)
(* ---------------------------------------------------------------------- *)
\* Line 269.
HasCoordsLatOnly(aircraft) == aircraft.lat # NoKey

HasCoords(aircraft) == aircraft.lat # NoKey /\ aircraft.lon # NoKey

\* Line 272: aircraft.get('hex', '').lower(); a JSON null has no lower().
HexRaises(aircraft) == aircraft.hex = JsonNull

icao_raw(aircraft) == IF aircraft.hex = NoKey THEN "" ELSE aircraft.hex

icao_of(aircraft) == lower(IF aircraft.hex = NoKey THEN "" ELSE aircraft.hex)

\* Lines 269-274: the entry yields records.
RetainedAnyHex(aircraft) == HasCoords(aircraft) /\ ~HexRaises(aircraft)

Retained(aircraft) == HasCoords(aircraft) /\ ~HexRaises(aircraft) /\ icao_of(aircraft) # ""

\* The loop of line 267 raises at the first entry that passes line 269 and
\* whose hex is not a string; nothing has been written by then.
TransformRaises(aircraft_list) == \E i \in 1..Len(aircraft_list) : HasCoords(aircraft_list[i]) /\ HexRaises(aircraft_list[i])

\* Lines 277-295.
PositionRecord(aircraft, t) == [time |-> t, icao |-> icao_of(aircraft), lat |-> aircraft.lat, lon |-> aircraft.lon, alt_baro |-> aircraft.alt_baro]

\* Line 298.
WantsMetadataNoCategory(aircraft) == Truthy(aircraft.r) \/ Truthy(aircraft.t)

WantsMetadata(aircraft) == Truthy(aircraft.r) \/ Truthy(aircraft.t) \/ Truthy(aircraft.category)

\* Lines 299-308.
MetadataUpdate(aircraft) == [icao |-> icao_of(aircraft), registration |-> aircraft.r, aircraft_type |-> aircraft.t, type_description |-> aircraft.desc, owner_operator |-> aircraft.ownOp, year |-> aircraft.year, is_military |-> is_military_aircraft(aircraft)]

RECURSIVE BuildPositions(_, _)
BuildPositions(aircraft_list, t) == IF aircraft_list = <<>> THEN <<>> ELSE LET a == Head(aircraft_list) IN (IF Retained(a) THEN <<PositionRecord(a, t)>> ELSE <<>>) \o BuildPositions(Tail(aircraft_list), t)

RECURSIVE BuildMetadataUnfiltered(_)
BuildMetadataUnfiltered(aircraft_list) == IF aircraft_list = <<>> THEN <<>> ELSE LET a == Head(aircraft_list) IN (IF ~HexRaises(a) /\ WantsMetadata(a) THEN <<MetadataUpdate(a)>> ELSE <<>>) \o BuildMetadataUnfiltered(Tail(aircraft_list))

RECURSIVE BuildMetadata(_)
BuildMetadata(aircraft_list) == IF aircraft_list = <<>> THEN <<>> ELSE LET a == Head(aircraft_list) IN (IF Retained(a) /\ WantsMetadata(a) THEN <<MetadataUpdate(a)>> ELSE <<>>) \o BuildMetadata(Tail(aircraft_list))

NoBatch == [positions |-> <<>>, metadata_updates |-> <<>>]

(* ---------------------------------------------------------------------- *)
(* store_positions: the two statements (lines 314-345)                     *)
(* ---------------------------------------------------------------------- *)
\* COALESCE(EXCLUDED.x, aircraft_metadata.x), lines 332-336.
CoalesceOld(excluded, existing) == IF existing # None THEN existing ELSE excluded

Coalesce(excluded, existing) == IF excluded # None THEN excluded ELSE existing

\* Line 337.
MilitaryMerged(excluded, existing) == excluded \/ existing

MilitarySet(excluded, existing) == excluded

\* Line 339 (and the 1 of line 330 for a new row).
SightingsKept(existing) == existing

Sightings(existing) == existing + 1

\* One execution of the statement of lines 328-339 for one update record.
UpsertOne(meta, u, t) == IF u.icao \in DOMAIN meta THEN [meta EXCEPT ![u.icao] = [registration |-> Coalesce(u.registration, @.registration), aircraft_type |-> Coalesce(u.aircraft_type, @.aircraft_type), type_description |-> Coalesce(u.type_description, @.type_description), owner_operator |-> Coalesce(u.owner_operator, @.owner_operator), year |-> Coalesce(u.year, @.year), is_military |-> MilitarySet(u.is_military, @.is_military), last_seen |-> t, total_sightings |-> Sightings(@.total_sightings)]] ELSE [i \in DOMAIN meta \cup {u.icao} |-> IF i = u.icao THEN [registration |-> u.registration, aircraft_type |-> u.aircraft_type, type_description |-> u.type_description, owner_operator |-> u.owner_operator, year |-> u.year, is_military |-> u.is_military, last_seen |-> t, total_sightings |-> 1] ELSE meta[i]]

\* executemany runs the statement once per record, in order.
RECURSIVE UpsertAll(_, _, _)
UpsertAll(meta, updates, t) == IF updates = <<>> THEN meta ELSE UpsertAll(UpsertOne(meta, Head(updates), t), Tail(updates), t)

NoMetadata == [i \in {} |-> None]

(* ---------------------------------------------------------------------- *)
(* State after construction (lines 149-158, 351-353) and variable groups   *)
(* ---------------------------------------------------------------------- *)
Icaos == {"abc123", "def456"}

cacheVars == <<military_database, military_db_last_updated, military_db_loading, load_exit, last_load>>

storeVars == <<aircraft_positions, aircraft_metadata, upserts, initial_metadata, prev_metadata>>

tickVars == <<last_data, e2e, persisted, none_streak, cache_at_transform, errors_before, interval_sleeps>>

\* The aggregate tables the database engine maintains, and the last request
\* to the query API with its response.
apiVars == <<aircraft_tracks_1min, aircraft_tracks_5min, request, response>>

\* The service's lifecycle: where shutdown() is, the shared connection pool,
\* and the outcome of the collector's last feeder request.
lifeVars == <<shutdown_pc, db_pool, feeder>>

\* No feeder request has ended yet.
NoOutcome == [kind |-> "none", status |-> 0, body |-> ""]

NoRequest == [kind |-> "none"]

NoResponse == [status |-> 0]

\* The end-to-end scenario of the specification: one aircraft ABC123 with a
\* position and a registration.
ScenarioAircraft == Aircraft("ABC123", "10.0", "20.0", "N12345", None, None, None, None, None)

ScenarioSnapshot == Snapshot(<<ScenarioAircraft>>)

\* A metadata row left in the table by an earlier run of the service.
EarlierRow == [registration |-> "N777", aircraft_type |-> "A320", type_description |-> "AIRBUS", owner_operator |-> "ACME", year |-> "2001", is_military |-> TRUE, last_seen |-> 0, total_sightings |-> InitialSightings]

EarlierMetadata == [i \in {"def456"} |-> EarlierRow]

\* The collector as constructed, given what the metadata table holds.
InitWith(metadata) == /\ running = TRUE
                      /\ military_database = UnsetCache
                      /\ military_db_last_updated = NoTime
                      /\ military_db_loading = FALSE
                      /\ now = 0
                      /\ pc = "start"
                      /\ consecutive_errors = 0
                      /\ last_db_refresh = 0
                      /\ sleep_for = 0
                      /\ batch = NoBatch
                      /\ aircraft_positions = <<>>
                      /\ aircraft_metadata = metadata
                      /\ other_pc = "idle"
                      /\ load_exit = "none"
                      /\ last_load = [done |-> FALSE, keys |-> {}]
                      /\ last_data = [kind |-> "init", aircraft |-> <<>>]
                      /\ e2e = "none"
                      /\ persisted = "none"
                      /\ none_streak = 0
                      /\ cache_at_transform = UnsetCache
                      /\ upserts = [i \in Icaos |-> 0]
                      /\ initial_metadata = metadata
                      /\ prev_metadata = NoMetadata
                      /\ errors_before = 0
                      /\ aircraft_tracks_1min = <<>>
                      /\ aircraft_tracks_5min = <<>>
                      /\ request = NoRequest
                      /\ response = NoResponse
                      /\ shutdown_pc = "idle"
                      /\ db_pool = "open"
                      /\ feeder = NoOutcome
                      /\ interval_sleeps = 0

Init == InitWith(NoMetadata)

(* ---------------------------------------------------------------------- *)
(* run() and collect_loop() (lines 347-390)                                *)
(* ---------------------------------------------------------------------- *)
\* Line 386: the load at startup, up to its first await; a call that returns
\* at once goes on into collect_loop (lines 351-353).
Start == /\ pc = "start"
         /\ \/ /\ LoadReturnsAtOnce(LoadEntry)
               /\ pc' = "top"
               /\ last_db_refresh' = now
            \/ /\ LoadStartsFetch(LoadEntry)
               /\ pc' = "startload"
               /\ UNCHANGED last_db_refresh
         /\ UNCHANGED <<lifeVars, apiVars, running, now, consecutive_errors, sleep_for, batch, storeVars, other_pc, tickVars>>

\* The startup download ends; collect_loop begins (lines 351-353).
StartLoadDone == /\ pc = "startload"
                 /\ \E outcome \in LoadOutcomes, db_data \in Docs : LoadFinish(outcome, db_data)
                 /\ pc' = "top"
                 /\ last_db_refresh' = now
                 /\ UNCHANGED <<lifeVars, apiVars, running, now, consecutive_errors, sleep_for, batch, storeVars, other_pc, tickVars>>

\* Line 358.
RefreshDue == now - last_db_refresh > RefreshHours

\* Line 355: the loop ends once running is cleared.
LoopExit == /\ pc = "top"
            /\ ~running
            /\ pc' = "done"
            /\ UNCHANGED <<lifeVars, apiVars, running, now, consecutive_errors, last_db_refresh, sleep_for, batch, storeVars, other_pc, cacheVars, tickVars>>

\* Lines 355-363: a tick begins; the refresh, when due, up to its first
\* await, else straight on to the feeder request.
TickBegin == /\ pc = "top"
             /\ running
             /\ \/ /\ ~RefreshDue
                   /\ pc' = "fetch"
                   /\ UNCHANGED <<last_db_refresh, cacheVars>>
                \/ /\ RefreshDue
                   /\ LoadReturnsAtOnce(LoadEntry)
                   /\ last_db_refresh' = now
                   /\ pc' = "fetch"
                \/ /\ RefreshDue
                   /\ LoadStartsFetch(LoadEntry)
                   /\ pc' = "refresh"
                   /\ UNCHANGED last_db_refresh
             /\ UNCHANGED <<lifeVars, apiVars, running, now, consecutive_errors, sleep_for, batch, storeVars, other_pc, tickVars>>

\* Lines 360-363: the refresh download ends, whatever its outcome; the tick
\* goes on to the feeder request.
RefreshDoneAborts == /\ pc = "refresh"
                     /\ \E outcome \in LoadOutcomes, db_data \in Docs : LoadFinish(outcome, db_data) /\ pc' = (IF outcome = "ok" THEN "fetch" ELSE "sleep")
                     /\ last_db_refresh' = now
                     /\ UNCHANGED <<lifeVars, apiVars, running, now, consecutive_errors, sleep_for, batch, storeVars, other_pc, tickVars>>

RefreshDone == /\ pc = "refresh"
               /\ \E outcome \in LoadOutcomes, db_data \in Docs : LoadFinish(outcome, db_data)
               /\ last_db_refresh' = now
               /\ pc' = "fetch"
               /\ UNCHANGED <<lifeVars, apiVars, running, now, consecutive_errors, sleep_for, batch, storeVars, other_pc, tickVars>>

\* Ghost bookkeeping of a finished feeder request: the data it returned,
\* the failure counter it found, whether this is the scenario's first tick
\* on empty tables, the number of consecutive ticks whose data was falsy
\* (None or an empty body), and the number of poll-interval sleeps that
\* have ended since this request (none yet).
TickGhosts(data) == /\ last_data' = data
                    /\ errors_before' = consecutive_errors
                    /\ e2e' = IF e2e = "none" /\ data = ScenarioSnapshot /\ aircraft_positions = <<>> /\ aircraft_metadata = NoMetadata THEN "scenario" ELSE "other"
                    /\ persisted' = "none"
                    /\ none_streak' = IF data.kind \in {"none", "empty"} THEN (IF none_streak < max_consecutive_errors THEN none_streak + 1 ELSE none_streak) ELSE 0
                    /\ interval_sleeps' = 0

\* Line 370.
PenaltyDueNever(errors) == FALSE

PenaltyDue(errors) == errors >= max_consecutive_errors

\* Lines 368-375: the fetch gave nothing usable.
FetchNoData(data) == /\ ~DataTruthy(data)
                     /\ consecutive_errors' = consecutive_errors + 1
                     /\ IF PenaltyDue(consecutive_errors + 1) THEN pc' = "penalty" /\ sleep_for' = PenaltySeconds ELSE pc' = "sleep" /\ sleep_for' = collection_interval
                     /\ UNCHANGED <<batch, cache_at_transform>>

\* Lines 256-261, 310-312, then 367 and 375: store_positions returns without
\* touching the database.
TickNothingToStore(data) == /\ DataTruthy(data)
                            /\ ~TransformRaises(data.aircraft)
                            /\ BuildPositions(data.aircraft, now) = <<>>
                            /\ consecutive_errors' = 0
                            /\ pc' = "sleep"
                            /\ sleep_for' = collection_interval
                            /\ UNCHANGED <<batch, cache_at_transform>>

\* Line 378.
ErrorCountKept(errors) == errors

ErrorCount(errors) == errors + 1

\* Lines 267-274 raise; lines 377-380 count the exception and sleep.
TickRaises(data) == /\ DataTruthy(data)
                    /\ TransformRaises(data.aircraft)
                    /\ consecutive_errors < MaxErrors
                    /\ consecutive_errors' = ErrorCount(consecutive_errors)
                    /\ pc' = "errsleep"
                    /\ sleep_for' = collection_interval
                    /\ UNCHANGED <<batch, cache_at_transform>>

\* Lines 263-312: the batches are built; line 315 awaits the database.
TickBuildsFirstOnly(data) == /\ DataTruthy(data)
                             /\ ~TransformRaises(data.aircraft)
                             /\ BuildPositions(data.aircraft, now) # <<>>
                             /\ Len(aircraft_positions) + Len(BuildPositions(data.aircraft, now)) <= MaxRows
                             /\ batch' = [positions |-> <<Head(BuildPositions(data.aircraft, now))>>, metadata_updates |-> BuildMetadata(data.aircraft)]
                             /\ cache_at_transform' = military_database
                             /\ pc' = "insert"
                             /\ UNCHANGED <<consecutive_errors, sleep_for>>

TickBuildsBatch(data) == /\ DataTruthy(data)
                         /\ ~TransformRaises(data.aircraft)
                         /\ BuildPositions(data.aircraft, now) # <<>>
                         /\ Len(aircraft_positions) + Len(BuildPositions(data.aircraft, now)) <= MaxRows
                         /\ batch' = [positions |-> BuildPositions(data.aircraft, now), metadata_updates |-> BuildMetadata(data.aircraft)]
                         /\ cache_at_transform' = military_database
                         /\ pc' = "insert"
                         /\ UNCHANGED <<consecutive_errors, sleep_for>>

\* Line 363 returns: the rest of the tick up to its next await.
FetchDone(feed) == /\ pc = "fetch"
                   /\ \E data \in feed : /\ TickGhosts(data)
                                         /\ \/ FetchNoData(data)
                                            \/ TickNothingToStore(data)
                                            \/ TickRaises(data)
                                            \/ TickBuildsBatch(data)
                   /\ UNCHANGED <<lifeVars, apiVars, running, now, last_db_refresh, storeVars, other_pc, cacheVars>>

\* Lines 315-323: the insert of the position batch succeeds, or the pool or
\* the statement raises (lines 344-345; store_positions returns, line 367).
InsertDoneRaises == /\ pc = "insert"
                    /\ \/ /\ aircraft_positions' = aircraft_positions \o batch.positions
                          /\ IF batch.metadata_updates # <<>> THEN pc' = "upsert" /\ UNCHANGED <<consecutive_errors, sleep_for, persisted>> ELSE pc' = "sleep" /\ consecutive_errors' = 0 /\ sleep_for' = collection_interval /\ persisted' = "ok"
                       \/ /\ UNCHANGED aircraft_positions
                          /\ pc' = "errsleep"
                          /\ consecutive_errors' = consecutive_errors + 1
                          /\ sleep_for' = collection_interval
                          /\ persisted' = "insert_failed"
                    /\ UNCHANGED <<lifeVars, apiVars, running, now, last_db_refresh, batch, aircraft_metadata, upserts, initial_metadata, prev_metadata, other_pc, cacheVars, last_data, e2e, none_streak, cache_at_transform, errors_before, interval_sleeps>>

InsertDone == /\ pc = "insert"
              /\ \/ /\ aircraft_positions' = aircraft_positions \o batch.positions
                    /\ IF batch.metadata_updates # <<>> THEN pc' = "upsert" /\ UNCHANGED <<consecutive_errors, sleep_for, persisted>> ELSE pc' = "sleep" /\ consecutive_errors' = 0 /\ sleep_for' = collection_interval /\ persisted' = "ok"
                 \/ /\ UNCHANGED aircraft_positions
                    /\ pc' = "sleep"
                    /\ consecutive_errors' = 0
                    /\ sleep_for' = collection_interval
                    /\ persisted' = "insert_failed"
              /\ UNCHANGED <<lifeVars, apiVars, running, now, last_db_refresh, batch, aircraft_metadata, upserts, initial_metadata, prev_metadata, other_pc, cacheVars, last_data, e2e, none_streak, cache_at_transform, errors_before, interval_sleeps>>

\* Ghost: the number of update records applied per identifier.
RECURSIVE CountUpdates(_, _)
CountUpdates(updates, icao) == IF updates = <<>> THEN 0 ELSE (IF Head(updates).icao = icao THEN 1 ELSE 0) + CountUpdates(Tail(updates), icao)

\* Lines 326-340: the upsert of the metadata batch succeeds or raises.
UpsertDone == /\ pc = "upsert"
              /\ \/ /\ aircraft_metadata' = UpsertAll(aircraft_metadata, batch.metadata_updates, now)
                    /\ upserts' = [i \in Icaos |-> upserts[i] + CountUpdates(batch.metadata_updates, i)]
                    /\ prev_metadata' = aircraft_metadata
                    /\ persisted' = "ok"
                 \/ /\ UNCHANGED <<aircraft_metadata, upserts, prev_metadata>>
                    /\ persisted' = "upsert_failed"
              /\ pc' = "sleep"
              /\ consecutive_errors' = 0
              /\ sleep_for' = collection_interval
              /\ UNCHANGED <<lifeVars, apiVars, running, now, last_db_refresh, batch, aircraft_positions, initial_metadata, other_pc, cacheVars, last_data, e2e, none_streak, cache_at_transform, errors_before, interval_sleeps>>

\* Lines 372-375: the 60-second pause ends; the counter is reset and the
\* poll-interval sleep begins.
PenaltyDoneInstead == /\ pc = "penalty"
                      /\ consecutive_errors' = 0
                      /\ pc' = "top"
                      /\ sleep_for' = 0
                      /\ UNCHANGED <<lifeVars, apiVars, running, now, last_db_refresh, batch, storeVars, other_pc, cacheVars, tickVars>>

PenaltyDone == /\ pc = "penalty"
               /\ consecutive_errors' = 0
               /\ pc' = "sleep"
               /\ sleep_for' = collection_interval
               /\ UNCHANGED <<lifeVars, apiVars, running, now, last_db_refresh, batch, storeVars, other_pc, cacheVars, tickVars>>

\* Line 375 or line 380: the poll-interval sleep ends; the tick's locals die.
SleepDone == /\ pc \in {"sleep", "errsleep"}
             /\ pc' = "top"
             /\ sleep_for' = 0
             /\ batch' = NoBatch
             /\ persisted' = "none"
             /\ prev_metadata' = NoMetadata
             /\ errors_before' = 0
             /\ interval_sleeps' = interval_sleeps + 1
             /\ UNCHANGED <<lifeVars, apiVars, running, now, consecutive_errors, last_db_refresh, aircraft_positions, aircraft_metadata, upserts, initial_metadata, other_pc, cacheVars, last_data, e2e, none_streak, cache_at_transform>>

\* Lines 392-395.
StopInterrupts == /\ running
                  /\ running' = FALSE
                  /\ pc' = "done"
                  /\ UNCHANGED <<lifeVars, apiVars, now, consecutive_errors, last_db_refresh, sleep_for, batch, storeVars, other_pc, cacheVars, tickVars>>

Stop == /\ running
        /\ running' = FALSE
        /\ UNCHANGED <<lifeVars, apiVars, now, pc, consecutive_errors, last_db_refresh, sleep_for, batch, storeVars, other_pc, cacheVars, tickVars>>

\* The wall clock moves.
TimePasses(durations) == /\ \E d \in durations : now + d <= MaxTime /\ now' = now + d
                         /\ UNCHANGED <<lifeVars, apiVars, running, pc, consecutive_errors, last_db_refresh, sleep_for, batch, storeVars, other_pc, cacheVars, tickVars>>

(* ---------------------------------------------------------------------- *)
(* A second caller of load_military_database on the same event loop        *)
(* ---------------------------------------------------------------------- *)
OtherLoadCall == /\ other_pc = "idle"
                 /\ \/ LoadReturnsAtOnce(LoadEntry) /\ UNCHANGED other_pc
                    \/ LoadStartsFetch(LoadEntry) /\ other_pc' = "fetching"
                 /\ UNCHANGED <<lifeVars, apiVars, running, now, pc, consecutive_errors, last_db_refresh, sleep_for, batch, storeVars, tickVars>>

OtherLoadDone == /\ other_pc = "fetching"
                 /\ \E outcome \in LoadOutcomes, db_data \in Docs : LoadFinish(outcome, db_data)
                 /\ other_pc' = "idle"
                 /\ UNCHANGED <<lifeVars, apiVars, running, now, pc, consecutive_errors, last_db_refresh, sleep_for, batch, storeVars, tickVars>>

(* ---------------------------------------------------------------------- *)
(* Specification of the collector loop                                     *)
(* ---------------------------------------------------------------------- *)
MalformedAircraft == Aircraft(JsonNull, "10.0", "20.0", None, None, None, None, None, None)

\* What the feeder request can give the loop: no data, three bodies that
\* hold nothing to store, a body whose transform raises, the scenario.
LoopFeed == {NoData, EmptyBody, NoAircraftKey, ScenarioSnapshot, Snapshot(<<MalformedAircraft>>)}

Next == \/ Start
        \/ StartLoadDone
        \/ LoopExit
        \/ TickBegin
        \/ RefreshDone
        \/ FetchDone(LoopFeed)
        \/ InsertDone
        \/ UpsertDone
        \/ PenaltyDone
        \/ SleepDone
        \/ Stop
        \/ TimePasses(Durations)

Spec == Init /\ [][Next]_vars

(* ---------------------------------------------------------------------- *)
(* Specification of concurrent calls of load_military_database             *)
(* ---------------------------------------------------------------------- *)
LoadFeed == {NoAircraftKey}

NextLoad == \/ Start
            \/ StartLoadDone
            \/ LoopExit
            \/ TickBegin
            \/ RefreshDone
            \/ FetchDone(LoadFeed)
            \/ SleepDone
            \/ Stop
            \/ TimePasses(Durations)
            \/ OtherLoadCall
            \/ OtherLoadDone

SpecLoad == Init /\ [][NextLoad]_vars

(* ---------------------------------------------------------------------- *)
(* C1: single-flight load                                                  *)
(* ---------------------------------------------------------------------- *)
\* The callers that are inside the download of load_military_database.
CollectorFetching == pc \in {"startload", "refresh"}

OtherFetching == other_pc = "fetching"

AtMostOneFetch == /\ ~(CollectorFetching /\ OtherFetching)
                  /\ military_db_loading <=> (CollectorFetching \/ OtherFetching)

\* A call made while a download is in flight ends in the same step: the
\* caller does not enter the download, and cache, timestamp and flag stay.
RejectedAtOnce == /\ load_exit' = "busy"
                  /\ UNCHANGED <<military_database, military_db_last_updated, military_db_loading>>

\* C1: at every moment at most one call of load_military_database is in its
\* network fetch, and a call that starts while another is in flight returns
\* in that very step, without fetching and without waiting.
C1_SingleFlight == /\ []AtMostOneFetch
                   /\ [][(OtherLoadCall /\ military_db_loading) => (RejectedAtOnce /\ other_pc' = "idle")]_vars
                   /\ [][(TickBegin /\ RefreshDue /\ military_db_loading) => (RejectedAtOnce /\ pc' = "fetch")]_vars
                   /\ [][(Start /\ military_db_loading) => (RejectedAtOnce /\ pc' = "top")]_vars

\* A call has just been turned away while another caller is downloading.
C1_Witness == load_exit = "busy" /\ military_db_loading /\ (CollectorFetching \/ OtherFetching)

(* ---------------------------------------------------------------------- *)
(* C2: the penalty pause                                                   *)
(* ---------------------------------------------------------------------- *)
\* The step in which the feeder request of a tick returns.
FetchReturns == pc = "fetch" /\ pc' # "fetch"

\* C2 as stated: a penalty pause happens only at the 10th consecutive
\* no-data fetch.
C2_Original == pc = "penalty" => none_streak >= max_consecutive_errors

\* C2 as amended: a tick pauses exactly when its fetch gave falsy data and
\* that brings the failure counter, which also counts the ticks that raised,
\* to 10 or more; the pause is one sleep of 60 seconds, after which the
\* counter is zero and the poll-interval sleep and the next tick follow.
C2_PenaltyPause == /\ [][FetchReturns => ((pc' = "penalty") <=> (last_data'.kind \in {"none", "empty"} /\ consecutive_errors + 1 >= max_consecutive_errors))]_vars
                   /\ [][(pc' = "penalty" /\ pc # "penalty") => (FetchReturns /\ sleep_for' = PenaltySeconds /\ consecutive_errors' = consecutive_errors + 1)]_vars
                   /\ [][(pc = "penalty" /\ pc' # "penalty") => (pc' = "sleep" /\ consecutive_errors' = 0 /\ sleep_for' = collection_interval)]_vars
                   /\ [][(pc = "sleep" /\ pc' # "sleep") => (pc' = "top" /\ consecutive_errors' = consecutive_errors)]_vars

\* The pause that ten consecutive no-data fetches bring about.
C2_Witness == pc = "penalty" /\ none_streak = max_consecutive_errors /\ consecutive_errors = max_consecutive_errors /\ sleep_for = PenaltySeconds

(* ---------------------------------------------------------------------- *)
(* C3: the update rule of the failure counter                              *)
(* ---------------------------------------------------------------------- *)
\* The tick has reached its sleep (line 375 or line 380).
TickSleeping == pc \in {"sleep", "errsleep"}

\* C3 as stated: a tick whose fetch got a parsed body of a 200 response,
\* whatever the body, ends with the counter at zero.
C3_Original == (TickSleeping /\ last_data.kind \in {"empty", "nokey", "list"}) => consecutive_errors = 0

\* C3 as amended: a tick whose fetch got a truthy body and whose
\* store_positions returned ends with the counter at zero whatever it was;
\* a tick whose fetch got None or a falsy body, and a tick that raised, add
\* exactly one to the counter.
C3_CounterRule == /\ [](pc = "sleep" /\ last_data.kind \in {"nokey", "list"} => consecutive_errors = 0)
                  /\ [][(FetchReturns /\ last_data'.kind \in {"none", "empty"}) => consecutive_errors' = consecutive_errors + 1]_vars
                  /\ [][(FetchReturns /\ pc' = "errsleep") => consecutive_errors' = consecutive_errors + 1]_vars
                  /\ [][(FetchReturns /\ last_data'.kind \in {"nokey", "list"} /\ pc' = "sleep") => consecutive_errors' = 0]_vars

\* A fetch with a truthy body arrives after failures were counted, and the
\* tick ends with the counter at zero.
C3_Witness == pc = "sleep" /\ last_data.kind = "list" /\ persisted = "ok" /\ errors_before > 1 /\ consecutive_errors = 0

(* ---------------------------------------------------------------------- *)
(* C4: the loop survives a tick's exception                                *)
(* ---------------------------------------------------------------------- *)
\* The tick's data makes the transform of store_positions raise.
DataRaises(data) == DataTruthy(data) /\ \E i \in 1..Len(data.aircraft) : data.aircraft[i].lat # NoKey /\ data.aircraft[i].lon # NoKey /\ data.aircraft[i].hex = JsonNull

\* C4 as stated, for the persist step: an exception raised by the insert or
\* the upsert adds one to the failure counter.
C4_Original == [][(persisted = "none" /\ persisted' \in {"insert_failed", "upsert_failed"}) => consecutive_errors' = consecutive_errors + 1]_vars

\* C4 as amended: an exception that leaves a step of the tick (the transform
\* of a malformed snapshot; refresh, fetch and persist catch their own) is
\* caught at the loop boundary, adds one to the counter, and the loop goes on
\* to the next loop-top check after one poll-interval sleep; an exception of
\* the insert or the upsert is caught inside store_positions and the counter
\* is reset to zero; the loop ends only at a loop-top check that finds the
\* running flag cleared.
C4_LoopResilience == /\ [][(FetchReturns /\ DataRaises(last_data')) => (pc' = "errsleep" /\ consecutive_errors' = consecutive_errors + 1 /\ sleep_for' = collection_interval)]_vars
                     /\ [][(pc = "errsleep" /\ pc' # "errsleep") => (pc' = "top" /\ consecutive_errors' = consecutive_errors)]_vars
                     /\ [][(persisted = "none" /\ persisted' \in {"insert_failed", "upsert_failed"}) => (pc' = "sleep" /\ consecutive_errors' = 0)]_vars
                     /\ [][(pc' = "done" /\ pc # "done") => (pc = "top" /\ ~running)]_vars
                     /\ [](pc = "done" => ~running)

\* A tick has raised and the loop sleeps in its exception handler, still
\* running.
C4_Witness == pc = "errsleep" /\ running /\ DataRaises(last_data) /\ consecutive_errors > 1

(* ---------------------------------------------------------------------- *)
(* Specification of the stores: a feed rich in entries, a steady feeder    *)
(* ---------------------------------------------------------------------- *)
StoreEntries == { ScenarioAircraft,
                  Aircraft("abc123", "10.0", "20.0", None, "C17", "GLOBEMASTER", "USAF", "1999", "A5"),
                  Aircraft("def456", "10.0", "20.0", "N888", None, None, None, None, None),
                  Aircraft("DEF456", "10.0", "20.0", None, "B738", "BOEING", "OTHER", "2010", None),
                  Aircraft("def456", "10.0", "20.0", "", "B738", None, None, None, None),
                  Aircraft("def456", "10.0", "20.0", None, None, None, None, None, None),
                  Aircraft("abc123", "10.0", "20.0", None, None, None, None, None, "A3"),
                  Aircraft("def456", NoKey, "20.0", "N888", None, None, None, None, None),
                  Aircraft("abc123", "10.0", NoKey, None, "C17", None, None, None, None),
                  Aircraft(NoKey, "10.0", "20.0", "N888", None, None, None, None, None),
                  Aircraft("", "10.0", "20.0", "N888", None, None, None, None, None) }

\* The entries that come second in the two-entry snapshots.
SecondEntries == { ScenarioAircraft,
                   Aircraft("def456", "10.0", "20.0", "N888", None, None, None, None, None),
                   Aircraft("DEF456", "10.0", "20.0", None, "B738", "BOEING", "OTHER", "2010", None) }

StoreFeed == {NoAircraftKey, Snapshot(<<>>)} \cup {Snapshot(<<a>>) : a \in StoreEntries} \cup {Snapshot(<<a, b>>) : a \in StoreEntries, b \in SecondEntries}

InitStore == \E metadata \in {NoMetadata, EarlierMetadata} : InitWith(metadata)

NextStore == \/ Start
             \/ StartLoadDone
             \/ TickBegin
             \/ FetchDone(StoreFeed)
             \/ InsertDone
             \/ UpsertDone
             \/ SleepDone

SpecStore == InitStore /\ [][NextStore]_vars

\* The step in which the upsert statement of a tick succeeds.
UpsertApplied == pc = "upsert" /\ persisted' = "ok"

(* ---------------------------------------------------------------------- *)
(* C5: the end-to-end scenario                                             *)
(* ---------------------------------------------------------------------- *)
\* C5: from empty tables, a first tick that fetches the snapshot of one
\* aircraft ABC123 with latitude, longitude and registration, and whose two
\* statements succeed, leaves exactly one position row and exactly one
\* metadata row, both for abc123, the metadata row with sighting count 1.
C5_EndToEnd == (e2e = "scenario" /\ persisted = "ok") => /\ Len(aircraft_positions) = 1
                                                         /\ aircraft_positions[1].icao = "abc123"
                                                         /\ DOMAIN aircraft_metadata = {"abc123"}
                                                         /\ aircraft_metadata["abc123"].total_sightings = 1
                                                         /\ aircraft_metadata["abc123"].registration = "N12345"

\* The scenario's tick has stored its records.
C5_Witness == e2e = "scenario" /\ persisted = "ok" /\ pc = "sleep" /\ initial_metadata = NoMetadata

(* ---------------------------------------------------------------------- *)
(* C6: the coordinate filter                                               *)
(* ---------------------------------------------------------------------- *)
\* The entries of a snapshot that carry both coordinates.
RECURSIVE WithBothCoords(_)
WithBothCoords(aircraft_list) == IF aircraft_list = <<>> THEN 0 ELSE (IF Head(aircraft_list).lat # NoKey /\ Head(aircraft_list).lon # NoKey THEN 1 ELSE 0) + WithBothCoords(Tail(aircraft_list))

LacksCoordinate(aircraft) == aircraft.lat = NoKey \/ aircraft.lon = NoKey

InitialCount(icao) == IF icao \in DOMAIN initial_metadata THEN initial_metadata[icao].total_sightings ELSE 0

\* C7: the sighting count of an identifier is its initial count (none for a
\* new row, which starts at 1) plus the number of update records applied to
\* it, and no step lowers it or removes the row.
C7_SightingCount == /\ [](DOMAIN aircraft_metadata \subseteq Icaos)
                    /\ [](\A i \in Icaos : IF i \in DOMAIN aircraft_metadata THEN aircraft_metadata[i].total_sightings = InitialCount(i) + upserts[i] ELSE upserts[i] = 0)
                    /\ [][\A i \in DOMAIN aircraft_metadata : i \in DOMAIN aircraft_metadata' /\ aircraft_metadata'[i].total_sightings >= aircraft_metadata[i].total_sightings]_vars
                    /\ [][UpsertApplied => \A i \in DOMAIN aircraft_metadata' : aircraft_metadata'[i].total_sightings = (IF i \in DOMAIN aircraft_metadata THEN aircraft_metadata[i].total_sightings ELSE 0) + CountUpdates(batch.metadata_updates, i)]_vars

\* A row that existed before has been upserted twice, and a new row once.
C7_Witness == /\ "def456" \in DOMAIN initial_metadata
              /\ upserts["def456"] = 2
              /\ aircraft_metadata["def456"].total_sightings = InitialSightings + 2

(* ---------------------------------------------------------------------- *)
(* C8: the field-level merge                                               *)
(* ---------------------------------------------------------------------- *)
MergedFields == {"registration", "aircraft_type", "type_description", "owner_operator", "year"}

\* What a field holds after the update records of one identifier, in order:
\* a null leaves it, a non-null value replaces it.
RECURSIVE MergeField(_, _, _, _)
MergeField(existing, updates, icao, f) == IF updates = <<>> THEN existing ELSE MergeField(IF Head(updates).icao = icao /\ Head(updates)[f] # None THEN Head(updates)[f] ELSE existing, Tail(updates), icao, f)

\* C8: for each of the five fields on its own, an update with a null value
\* leaves the stored value, and an update with a non-null value replaces it,
\* equal or not.
C8_FieldMerge == [][UpsertApplied => \A i \in DOMAIN aircraft_metadata', f \in MergedFields : aircraft_metadata'[i][f] = MergeField(IF i \in DOMAIN aircraft_metadata THEN aircraft_metadata[i][f] ELSE None, batch.metadata_updates, i, f)]_vars

\* One update has met an existing row: its null registration left the stored
\* one, its type replaced a different stored type.
C8_Witness == /\ persisted = "ok"
              /\ Len(batch.metadata_updates) = 1
              /\ batch.metadata_updates[1].icao \in DOMAIN prev_metadata
              /\ LET u == batch.metadata_updates[1] IN /\ u.registration = None
                                                      /\ prev_metadata[u.icao].registration # None
                                                      /\ aircraft_metadata[u.icao].registration = prev_metadata[u.icao].registration
                                                      /\ u.aircraft_type # None
                                                      /\ prev_metadata[u.icao].aircraft_type \notin {None, u.aircraft_type}
                                                      /\ aircraft_metadata[u.icao].aircraft_type = u.aircraft_type

(* ---------------------------------------------------------------------- *)
(* C9: the military flag is overwritten                                    *)
(* ---------------------------------------------------------------------- *)
\* The reference-cache lookup of an identifier against a given cache.
LookupAt(cache, icao) == ~cache.none /\ \E k \in DOMAIN cache.db : lower(k) = icao

\* C9: after the upsert of a tick, the stored military flag of every
\* identifier in the batch is the cache lookup made in that tick, whatever
\* the flag stored before.
C9_MilitaryOverwrite == [][UpsertApplied => \A i \in Icaos : CountUpdates(batch.metadata_updates, i) > 0 => aircraft_metadata'[i].is_military = LookupAt(cache_at_transform, i)]_vars

\* A flag stored as true has become false after a failed refresh emptied
\* the cache.
C9_Witness == /\ persisted = "ok"
              /\ "abc123" \in DOMAIN prev_metadata
              /\ prev_metadata["abc123"].is_military
              /\ ~aircraft_metadata["abc123"].is_military
              /\ ~military_database.none
              /\ DOMAIN military_database.db = {}
              /\ load_exit \in {"http_error", "timeout", "error"}

(* ---------------------------------------------------------------------- *)
(* C10: the reference-cache lookup                                         *)
(* ---------------------------------------------------------------------- *)
LookupProbes == {Aircraft(hex, "10.0", "20.0", None, None, None, None, None, None) : hex \in {"ABC123", "abc123", "AbC123", "def456", "DEF456", "", NoKey, JsonNull}}

\* C10: the lookup is false while the cache is unset or empty and for an
\* entry without identifier; it is true only for an identifier that, case
\* aside, is a key of what the most recently completed load installed.
C10_Lookup == \A a \in LookupProbes : /\ (military_database.none \/ DOMAIN military_database.db = {} \/ a.hex \in {NoKey, JsonNull, ""}) => ~is_military_aircraft(a)
                                      /\ is_military_aircraft(a) => (last_load.done /\ \E k \in last_load.keys : lower(k) = lower(a.hex))

\* A lowercase identifier is found under its uppercase key, another is not.
C10_Witness == /\ is_military_aircraft(Aircraft("abc123", "10.0", "20.0", None, None, None, None, None, None))
               /\ ~is_military_aircraft(Aircraft("def456", "10.0", "20.0", None, None, None, None, None, None))
               /\ last_load.done

(* ---------------------------------------------------------------------- *)
(* C11: a failed load empties the cache                                    *)
(* ---------------------------------------------------------------------- *)
LoadFailures == {"http_error", "timeout", "error"}

\* The step in which a download ends otherwise than with a parsed document.
LoadFails == military_db_loading /\ ~military_db_loading' /\ load_exit' # "ok"

\* C11: when a download ends in a timeout, a non-200 response, a parse
\* failure or another error, the cache becomes the empty mapping whatever it
\* held, the refresh timestamp becomes the current time, the call returns
\* false, and the caller goes on to its next statement.
C11_FailClosed == [][LoadFails => (/\ load_exit' \in LoadFailures
                                   /\ military_database' = [none |-> FALSE, db |-> EmptyDb]
                                   /\ military_db_last_updated' = now'
                                   /\ ~LoadReturn(load_exit')
                                   /\ pc' \in {"top", "fetch"})]_vars

\* A refresh has failed; the cache an earlier tick still read as populated
\* is now the empty mapping, stamped with the current time.
C11_Witness == /\ load_exit \in LoadFailures
               /\ pc = "fetch"
               /\ military_database = [none |-> FALSE, db |-> EmptyDb]
               /\ military_db_last_updated = now
               /\ ~cache_at_transform.none
               /\ DOMAIN cache_at_transform.db # {}

(* ---------------------------------------------------------------------- *)
(* Specification of the refresh gate: a clock that moves hour by hour      *)
(* ---------------------------------------------------------------------- *)
GateDurations == {1, 24}

NextGate == \/ Start
            \/ StartLoadDone
            \/ LoopExit
            \/ TickBegin
            \/ RefreshDone
            \/ FetchDone(LoadFeed)
            \/ SleepDone
            \/ Stop
            \/ TimePasses(GateDurations)
            \/ OtherLoadCall
            \/ OtherLoadDone

SpecGate == Init /\ [][NextGate]_vars

(* ---------------------------------------------------------------------- *)
(* C12: refresh gating                                                     *)
(* ---------------------------------------------------------------------- *)
\* The step in which a call goes on to the download.
FetchStarts == ~military_db_loading /\ military_db_loading'

\* The cache exists and its recorded refresh is less than 24 hours old.
CacheYoung == ~military_database.none /\ military_db_last_updated # NoTime /\ now - military_db_last_updated < RefreshHours

\* C12: a download starts only when the cache is unset or its recorded
\* refresh is at least 24 hours old, and no caller is inside a download;
\* while the cache exists and is younger than 24 hours no step starts a
\* download or changes cache or timestamp, and a call that returns reports
\* success.
C12_RefreshGating == /\ [][FetchStarts => (/\ (military_database.none \/ now - military_db_last_updated >= RefreshHours)
                                            /\ ~CollectorFetching
                                            /\ ~OtherFetching)]_vars
                     /\ [][CacheYoung => (/\ ~military_db_loading'
                                          /\ military_database' = military_database
                                          /\ military_db_last_updated' = military_db_last_updated
                                          /\ (load_exit' # load_exit => (load_exit' = "valid" /\ LoadReturn(load_exit'))))]_vars
                     /\ [](CacheYoung => ~military_db_loading)

\* A call at cache age 23 hours returned at once; the call an hour later,
\* at age exactly 24 hours, is inside the download.
C12_Witness == /\ other_pc = "fetching"
               /\ load_exit = "valid"
               /\ ~military_database.none
               /\ now - military_db_last_updated = RefreshHours

(* ---------------------------------------------------------------------- *)
(* Query API: datetimes, validation and tier selection (lines 504-615)     *)
(* ---------------------------------------------------------------------- *)
\* A datetime parameter: absent, or a wall clock in hours that is naive or
\* carries a UTC offset in hours.
NoDate == [given |-> FALSE, clock |-> 0, naive |-> TRUE, tz |-> 0]

Naive(clock) == [given |-> TRUE, clock |-> clock, naive |-> TRUE, tz |-> 0]

Aware(clock, tz) == [given |-> TRUE, clock |-> clock, naive |-> FALSE, tz |-> tz]

\* Lines 57-61: a naive value is taken as UTC, an aware one is converted.
ensure_utc(dt) == IF dt.naive THEN Aware(dt.clock, 0) ELSE Aware(dt.clock - dt.tz, 0)

\* datetime.now(timezone.utc), lines 521 and 265.
UtcNow == Aware(now, 0)

\* timedelta(days=n) and timedelta(hours=n) in hours.
Days(n) == n * 24

Hours(n) == n

\* Line 583: le=10000 and the default of max_tracks.
MaxTracksCap == 10000

DefaultMaxTracks == 500

\* Line 509: the regex of the resolution parameter; an absent parameter
\* takes the default and is not matched against it.
TrackResolutionOk(resolution) == resolution \in {NoKey, "full", "1min", "5min"}

TrackResolution(resolution) == IF resolution = NoKey THEN "full" ELSE resolution

\* Lines 530-539.
TrackTableByEnd(resolution, start, end) == IF resolution = "5min" \/ end.clock > Days(30) THEN "aircraft_tracks_5min" ELSE IF resolution = "1min" \/ end.clock > Days(7) THEN "aircraft_tracks_1min" ELSE "aircraft_positions"

TrackTable(resolution, start, end) == LET time_range == end.clock - start.clock IN IF resolution = "5min" \/ time_range > Days(30) THEN "aircraft_tracks_5min" ELSE IF resolution = "1min" \/ time_range > Days(7) THEN "aircraft_tracks_1min" ELSE "aircraft_positions"

\* Lines 582-583: the validation of the bulk parameters.  max_tracks is <<>>
\* when absent and <<n>> when given.
BulkResolutionOk(resolution) == resolution \in {NoKey, "full", "1min", "5min"}

BulkResolution(resolution) == IF resolution = NoKey THEN "5min" ELSE resolution

MaxTracksOk(max_tracks) == max_tracks = <<>> \/ max_tracks[1] <= MaxTracksCap

MaxTracks(max_tracks) == IF max_tracks = <<>> THEN DefaultMaxTracks ELSE max_tracks[1]

\* Lines 600-615.
BulkTableBySpan(resolution, start, end) == LET time_range == end.clock - start.clock IN IF resolution = "5min" \/ time_range > Days(7) THEN "aircraft_tracks_5min" ELSE IF resolution = "1min" \/ time_range > Days(2) THEN "aircraft_tracks_1min" ELSE "aircraft_positions"

BulkTable(resolution, start, end) == LET time_range == end.clock - start.clock IN IF resolution = "full" THEN "aircraft_positions" ELSE IF resolution = "5min" \/ (resolution = "auto" /\ time_range > Days(7)) THEN "aircraft_tracks_5min" ELSE IF resolution = "1min" \/ (resolution = "auto" /\ time_range > Days(2)) THEN "aircraft_tracks_1min" ELSE "aircraft_positions"

\* Lines 533-539, 605-615: the time column of a table.
TimeCol(table) == IF table = "aircraft_positions" THEN "time" ELSE "bucket"

\* The rows of a table, each with its time column read as time.
AsTime(rows) == [i \in 1..Len(rows) |-> [time |-> rows[i].bucket, icao |-> rows[i].icao, lat |-> rows[i].lat, lon |-> rows[i].lon, alt_baro |-> rows[i].alt_baro]]

TableRows(table) == IF table = "aircraft_positions" THEN aircraft_positions ELSE IF table = "aircraft_tracks_1min" THEN AsTime(aircraft_tracks_1min) ELSE AsTime(aircraft_tracks_5min)

(* ---------------------------------------------------------------------- *)
(* Bulk query (lines 617-670) and result shaping (lines 680-716)           *)
(* ---------------------------------------------------------------------- *)
\* Lines 618-630: the filters on one row.  min_altitude and max_altitude
\* are <<>> when absent; a comparison with a null alt_baro is not true.
RowPasses(row, start, end, min_altitude, max_altitude) == /\ row.time >= start.clock
                                                          /\ row.time <= end.clock
                                                          /\ min_altitude # <<>> => (row.alt_baro # <<>> /\ row.alt_baro[1] >= min_altitude[1])
                                                          /\ max_altitude # <<>> => (row.alt_baro # <<>> /\ row.alt_baro[1] <= max_altitude[1])

Filtered(rows, start, end, min_altitude, max_altitude) == LET Test(row) == RowPasses(row, start, end, min_altitude, max_altitude) IN SelectSeq(rows, Test)

\* Lines 635-637: the left join with aircraft_metadata and its condition;
\* an identifier without metadata row joins a null flag.
MilitaryWhereAll(military_only, icao) == TRUE

MilitaryWhereStrict(military_only, icao) == ~military_only \/ (icao \in DOMAIN aircraft_metadata /\ aircraft_metadata[icao].is_military)

MilitaryWhere(military_only, icao) == ~military_only \/ icao \notin DOMAIN aircraft_metadata \/ aircraft_metadata[icao].is_military

\* Lines 642-646: the groups of ranked_aircraft and their position_count.
RankedGroups(rows, military_only) == {icao \in {rows[i].icao : i \in 1..Len(rows)} : MilitaryWhere(military_only, icao)}

position_count(rows, icao) == Cardinality({i \in 1..Len(rows) : rows[i].icao = icao})

\* Line 647: the orders ORDER BY position_count DESC can give; ties fall
\* either way.
RankedOrders(rows, groups) == {order \in [1..Cardinality(groups) -> groups] : \A i, j \in 1..Cardinality(groups) : i < j => (order[i] # order[j] /\ position_count(rows, order[i]) >= position_count(rows, order[j]))}

\* Line 648: LIMIT.
LimitIgnored(order, n) == order

Limit(order, n) == SubSeq(order, 1, IF n < Len(order) THEN n ELSE Len(order))

\* Line 667: ORDER BY p.icao, p.time.  The identifiers in collation order.
IcaoOrder == <<"00aaaa", "abc123", "def456">>

RECURSIVE InsertByTime(_, _)
InsertByTime(sorted, row) == IF sorted = <<>> THEN <<row>> ELSE IF row.time < Head(sorted).time THEN <<row>> \o sorted ELSE <<Head(sorted)>> \o InsertByTime(Tail(sorted), row)

RECURSIVE SortByTime(_)
SortByTime(rows) == IF rows = <<>> THEN <<>> ELSE InsertByTime(SortByTime(Tail(rows)), Head(rows))

RowsOf(rows, icao) == LET Test(row) == row.icao = icao IN SelectSeq(rows, Test)

RECURSIVE OrderedRows(_, _, _)
OrderedRows(rows, ranked, k) == IF k > Len(IcaoOrder) THEN <<>> ELSE (IF IcaoOrder[k] \in ranked THEN SortByTime(RowsOf(rows, IcaoOrder[k])) ELSE <<>>) \o OrderedRows(rows, ranked, k + 1)

\* Lines 659-665: the left join of the selected rows with aircraft_metadata.
JoinMetadata(row) == IF row.icao \in DOMAIN aircraft_metadata THEN [time |-> row.time, icao |-> row.icao, lat |-> row.lat, lon |-> row.lon, alt_baro |-> row.alt_baro, aircraft_type |-> aircraft_metadata[row.icao].aircraft_type, registration |-> aircraft_metadata[row.icao].registration, type_description |-> aircraft_metadata[row.icao].type_description, is_military |-> aircraft_metadata[row.icao].is_military] ELSE [time |-> row.time, icao |-> row.icao, lat |-> row.lat, lon |-> row.lon, alt_baro |-> row.alt_baro, aircraft_type |-> None, registration |-> None, type_description |-> None, is_military |-> FALSE]

\* Lines 640-668: the rows the statement returns for one ranking order.
QueryRows(rows, order, max_tracks) == LET ranked == {Limit(order, max_tracks)[i] : i \in 1..Len(Limit(order, max_tracks))} IN LET ordered == OrderedRows(rows, ranked, 1) IN [i \in 1..Len(ordered) |-> JoinMetadata(ordered[i])]

\* Lines 681-702: the rows grouped by identifier, in order of appearance.
TrackIndex(tracks, icao) == IF \E i \in 1..Len(tracks) : tracks[i].icao = icao THEN CHOOSE i \in 1..Len(tracks) : tracks[i].icao = icao ELSE 0

NewTrack(row) == [icao |-> row.icao, aircraft_type |-> row.aircraft_type, registration |-> row.registration, type_description |-> row.type_description, is_military |-> row.is_military, positions |-> <<>>]

PositionOf(row) == [time |-> row.time, lat |-> row.lat, lon |-> row.lon, alt |-> row.alt_baro]

RECURSIVE GroupRowsSkipFirst(_, _)
GroupRowsSkipFirst(rows, tracks) == IF rows = <<>> THEN tracks ELSE IF TrackIndex(tracks, Head(rows).icao) = 0 THEN GroupRowsSkipFirst(Tail(rows), Append(tracks, NewTrack(Head(rows)))) ELSE GroupRowsSkipFirst(Tail(rows), [tracks EXCEPT ![TrackIndex(tracks, Head(rows).icao)].positions = Append(@, PositionOf(Head(rows)))])

RECURSIVE GroupRows(_, _)
GroupRows(rows, tracks) == IF rows = <<>> THEN tracks ELSE LET created == IF TrackIndex(tracks, Head(rows).icao) = 0 THEN Append(tracks, NewTrack(Head(rows))) ELSE tracks IN GroupRows(Tail(rows), [created EXCEPT ![TrackIndex(created, Head(rows).icao)].positions = Append(@, PositionOf(Head(rows)))])

(* ---------------------------------------------------------------------- *)
(* The two track endpoints as handlers                                     *)
(* ---------------------------------------------------------------------- *)
\* The response of a request that fails validation (422), of one whose
\* statement raises (500, lines 573-575 and 718-720), and of one served.
Rejected == [status |-> 422, table |-> "none", start |-> 0, end |-> 0, rows |-> <<>>, tracks |-> <<>>]

Failed(table, start, end) == [status |-> 500, table |-> table, start |-> start.clock, end |-> end.clock, rows |-> <<>>, tracks |-> <<>>]

Served(table, start, end, rows, tracks) == [status |-> 200, table |-> table, start |-> start.clock, end |-> end.clock, rows |-> rows, tracks |-> tracks]

\* What the handlers leave alone: the collector and the tables.
handlerFrame == <<lifeVars, running, now, pc, consecutive_errors, last_db_refresh, sleep_for, batch, storeVars, other_pc, cacheVars, tickVars, aircraft_tracks_1min, aircraft_tracks_5min>>

\* Lines 520-527.
TrackEnd(end) == IF ~end.given THEN UtcNow ELSE ensure_utc(end)

TrackStart(start, end) == IF ~start.given THEN Aware(TrackEnd(end).clock - Hours(24), 0) ELSE ensure_utc(start)

\* Lines 541-571: the rows of one aircraft in the window, by time.
TrackRows(table, icao, start, end) == SortByTime(Filtered(RowsOf(TableRows(table), lower(icao)), start, end, <<>>, <<>>))

\* Lines 504-575.
get_aircraft_track(icao, start, end, resolution) == LET table == TrackTable(TrackResolution(resolution), TrackStart(start, end), TrackEnd(end)) IN
    /\ request' = [kind |-> "track", icao |-> icao, start |-> start, end |-> end, resolution |-> resolution, max_tracks |-> <<>>, min_altitude |-> <<>>, max_altitude |-> <<>>, military_only |-> FALSE]
    /\ IF ~TrackResolutionOk(resolution)
       THEN response' = Rejected
       ELSE \/ response' = Served(table, TrackStart(start, end), TrackEnd(end), TrackRows(table, icao, TrackStart(start, end), TrackEnd(end)), <<>>)
            \/ response' = Failed(table, TrackStart(start, end), TrackEnd(end))

\* Lines 617-668 for one ranking order, then lines 680-716.
BulkServed(table, start, end, filtered, order, max_tracks) == Served(table, start, end, QueryRows(filtered, order, max_tracks), GroupRows(QueryRows(filtered, order, max_tracks), <<>>))

\* Lines 578-720.  A negative LIMIT makes the statement raise.
get_bulk_tracks_timelapse(start, end, resolution, max_tracks, min_altitude, max_altitude, military_only) == LET table == BulkTable(BulkResolution(resolution), ensure_utc(start), ensure_utc(end)) IN LET filtered == Filtered(TableRows(table), ensure_utc(start), ensure_utc(end), min_altitude, max_altitude) IN
    /\ request' = [kind |-> "bulk", icao |-> "", start |-> start, end |-> end, resolution |-> resolution, max_tracks |-> max_tracks, min_altitude |-> min_altitude, max_altitude |-> max_altitude, military_only |-> military_only]
    /\ IF ~(BulkResolutionOk(resolution) /\ MaxTracksOk(max_tracks))
       THEN response' = Rejected
       ELSE \/ response' = Failed(table, ensure_utc(start), ensure_utc(end))
            \/ /\ MaxTracks(max_tracks) >= 0
               /\ \E order \in RankedOrders(filtered, RankedGroups(filtered, military_only)) : response' = BulkServed(table, ensure_utc(start), ensure_utc(end), filtered, order, MaxTracks(max_tracks))

\* The requests of the model.
Spans == {Days(1), Days(2), Days(2) + 1, Days(3), Days(7), Days(7) + 1, Days(10), Days(30), Days(30) + 1, Days(90)}

QueryWindows == {<<Naive(s), Naive(s + d)>> : s \in {0, 10}, d \in Spans} \cup {<<Aware(2, 2), Naive(Days(3))>>, <<Naive(30), Naive(10)>>, <<Naive(3), Naive(8)>>}

TrackWindows == QueryWindows \cup {<<NoDate, NoDate>>, <<NoDate, Naive(20)>>, <<Naive(0), NoDate>>}

ResolutionInputs == {NoKey, "full", "1min", "5min", "auto"}

MaxTracksInputs == {<<>>, <<-1>>, <<0>>, <<1>>, <<2>>, <<MaxTracksCap>>, <<MaxTracksCap + 1>>}

AltitudeInputs == {<<>>, <<1500>>}

CeilingInputs == {<<>>, <<2500>>}

GetAircraftTrack == /\ request.kind = "none"
                    /\ \E icao \in {"ABC123", "def456"}, window \in TrackWindows, resolution \in ResolutionInputs : get_aircraft_track(icao, window[1], window[2], resolution)
                    /\ UNCHANGED handlerFrame

GetBulkTracks == /\ request.kind = "none"
                 /\ \E window \in QueryWindows, resolution \in ResolutionInputs, max_tracks \in MaxTracksInputs, min_altitude \in AltitudeInputs, max_altitude \in CeilingInputs, military_only \in BOOLEAN : get_bulk_tracks_timelapse(window[1], window[2], resolution, max_tracks, min_altitude, max_altitude, military_only)
                 /\ UNCHANGED handlerFrame

\* The response has been sent; the handler's frame is gone.
ResponseSent == /\ request.kind # "none"
                /\ request' = NoRequest
                /\ response' = NoResponse
                /\ UNCHANGED handlerFrame

(* ---------------------------------------------------------------------- *)
(* Specification of the query API: tables filled by earlier ticks          *)
(* ---------------------------------------------------------------------- *)
\* A snapshot entry with coordinates, an altitude and a registration.
AircraftAt(hex, alt_baro, r) == [Aircraft(hex, "10.0", "20.0", r, None, None, None, None, None) EXCEPT !.alt_baro = alt_baro]

\* What earlier ticks fetched, each with the time of its tick.
HistoryA == << [t |-> 0, aircraft |-> <<AircraftAt("abc123", <<1000>>, "N1"), AircraftAt("def456", <<2000>>, "N2"), AircraftAt("00aaaa", <<3000>>, None)>>], [t |-> 5, aircraft |-> <<AircraftAt("ABC123", <<1500>>, None), AircraftAt("def456", <<2500>>, None)>>], [t |-> 20, aircraft |-> <<AircraftAt("abc123", <<>>, None)>>] >>

HistoryB == << [t |-> 0, aircraft |-> <<AircraftAt("def456", <<2000>>, "N2"), AircraftAt("00aaaa", <<500>>, None)>>], [t |-> 5, aircraft |-> <<AircraftAt("def456", <<2100>>, None), AircraftAt("00aaaa", <<2600>>, None), AircraftAt("abc123", <<1800>>, "N1")>>], [t |-> 20, aircraft |-> <<AircraftAt("DEF456", <<2200>>, None)>>] >>

Histories == {HistoryA, HistoryB}

\* The tables after store_positions has stored each tick of a history.
RECURSIVE StoredPositions(_)
StoredPositions(history) == IF history = <<>> THEN <<>> ELSE BuildPositions(Head(history).aircraft, Head(history).t) \o StoredPositions(Tail(history))

RECURSIVE StoredMetadata(_, _)
StoredMetadata(history, meta) == IF history = <<>> THEN meta ELSE StoredMetadata(Tail(history), UpsertAll(meta, BuildMetadata(Head(history).aircraft), Head(history).t))

\* An aggregate table over the stored rows: one row per bucket and
\* identifier, up to the time the engine has materialised.
Buckets(rows, upto) == LET Test(row) == row.time <= upto IN LET kept == SelectSeq(rows, Test) IN [i \in 1..Len(kept) |-> [bucket |-> kept[i].time, icao |-> kept[i].icao, lat |-> kept[i].lat, lon |-> kept[i].lon, alt_baro |-> kept[i].alt_baro]]

\* The service some ticks after its start: the cache loaded, the tables
\* holding what those ticks stored, the loop at its top.
InitQuery == /\ running = TRUE
             /\ military_database = [none |-> FALSE, db |-> ParseMilitary(DocA)]
             /\ military_db_last_updated = 0
             /\ military_db_loading = FALSE
             /\ now = 20
             /\ pc = "top"
             /\ consecutive_errors = 0
             /\ last_db_refresh = 0
             /\ sleep_for = 0
             /\ batch = NoBatch
             /\ \E history \in Histories, upto \in {5, 20} : /\ aircraft_positions = StoredPositions(history)
                                                            /\ aircraft_metadata = StoredMetadata(history, NoMetadata)
                                                            /\ initial_metadata = StoredMetadata(history, NoMetadata)
                                                            /\ aircraft_tracks_1min = Buckets(StoredPositions(history), 20)
                                                            /\ aircraft_tracks_5min = Buckets(StoredPositions(history), upto)
             /\ other_pc = "idle"
             /\ load_exit = "ok"
             /\ last_load = [done |-> TRUE, keys |-> FlaggedKeys("ok", DocA)]
             /\ last_data = [kind |-> "init", aircraft |-> <<>>]
             /\ e2e = "other"
             /\ persisted = "none"
             /\ none_streak = 0
             /\ cache_at_transform = [none |-> FALSE, db |-> ParseMilitary(DocA)]
             /\ upserts = [i \in Icaos |-> 0]
             /\ prev_metadata = NoMetadata
             /\ errors_before = 0
             /\ request = NoRequest
             /\ response = NoResponse
             /\ shutdown_pc = "idle"
             /\ db_pool = "open"
             /\ feeder = NoOutcome
             /\ interval_sleeps = 0

NextQuery == \/ GetAircraftTrack
             \/ GetBulkTracks
             \/ ResponseSent
             \/ Stop
             \/ LoopExit

SpecQuery == InitQuery /\ [][NextQuery]_vars

(* ---------------------------------------------------------------------- *)
(* C13: tier selection of the per-aircraft lookup                          *)
(* ---------------------------------------------------------------------- *)
\* A request of the given kind has passed validation and chosen its table.
Answered(kind) == request.kind = kind /\ response.status \in {200, 500}

\* The span of the answered request: end minus start, both as UTC instants.
Span == response.end - response.start

\* C13: for every accepted per-aircraft lookup the five-minute tier is
\* selected iff the resolution is explicitly 5min, or none was given and
\* the span exceeds 30 days; otherwise the minute tier iff it is explicitly
\* 1min, or none was given and the span exceeds 7 days; otherwise the raw
\* tier.
C13_Original == Answered("track") => response.table = (IF request.resolution = "5min" \/ (request.resolution = NoKey /\ Span > Days(30)) THEN "aircraft_tracks_5min" ELSE IF request.resolution = "1min" \/ (request.resolution = NoKey /\ Span > Days(7)) THEN "aircraft_tracks_1min" ELSE "aircraft_positions")

(* ---------------------------------------------------------------------- *)
(* C14: tier selection of the bulk lookup                                  *)
(* ---------------------------------------------------------------------- *)
\* C14: a bulk lookup with resolution full, 1min, 5min or auto is accepted
\* and selects: the raw tier for full; else the five-minute tier for 5min,
\* or auto with a span over 7 days; else the minute tier for 1min, or auto
\* with a span over 2 days; else the raw tier.
C14_Original == (request.kind = "bulk" /\ request.resolution \in {"full", "1min", "5min", "auto"} /\ MaxTracksOk(request.max_tracks)) => /\ response.status # 422
                                                                                                                                        /\ response.table = (IF request.resolution = "full" THEN "aircraft_positions" ELSE IF request.resolution = "5min" \/ (request.resolution = "auto" /\ Span > Days(7)) THEN "aircraft_tracks_5min" ELSE IF request.resolution = "1min" \/ (request.resolution = "auto" /\ Span > Days(2)) THEN "aircraft_tracks_1min" ELSE "aircraft_positions")

(* ---------------------------------------------------------------------- *)
(* C15: the tier is a function of span, resolution and kind                *)
(* ---------------------------------------------------------------------- *)
\* The tier as a table over the kind of query, the resolution the request
\* carries (NoKey when it carries none) and the span alone.
TierOf == [kind \in {"track", "bulk"} |-> [resolution \in {NoKey, "full", "1min", "5min"} |-> [long \in {"upto7", "upto30", "over30"} |->
            IF kind = "bulk" THEN (IF resolution = "full" THEN "aircraft_positions" ELSE IF resolution = "1min" THEN "aircraft_tracks_1min" ELSE "aircraft_tracks_5min")
            ELSE IF long = "over30" \/ resolution = "5min" THEN "aircraft_tracks_5min"
            ELSE IF long = "upto30" \/ resolution = "1min" THEN "aircraft_tracks_1min"
            ELSE "aircraft_positions"]]]

SpanClass(span) == IF span > Days(30) THEN "over30" ELSE IF span > Days(7) THEN "upto30" ELSE "upto7"

\* C15: the table selected for an accepted request is the one the table
\* TierOf gives for its kind, its resolution and its span, whatever the
\* absolute times, the stored rows and the collector's state; with a span
\* of 10 days and no resolution given, the per-aircraft lookup reads the
\* minute tier and the bulk lookup the five-minute tier.
C15_TierFunction == /\ \A kind \in {"track", "bulk"} : Answered(kind) => response.table = TierOf[kind][request.resolution][SpanClass(Span)]
                    /\ (Answered("track") /\ request.resolution = NoKey /\ Span = Days(10)) => response.table = "aircraft_tracks_1min"
                    /\ (Answered("bulk") /\ request.resolution = NoKey /\ Span = Days(10)) => response.table = "aircraft_tracks_5min"

\* A per-aircraft lookup over 10 days that do not start at the origin of
\* the clock, with no resolution given, answered from the minute tier after
\* the collector was stopped.
C15_Witness == /\ Answered("track")
               /\ request.resolution = NoKey
               /\ Span = Days(10)
               /\ response.start = 10
               /\ response.status = 200
               /\ response.table = "aircraft_tracks_1min"
               /\ ~running

(* ---------------------------------------------------------------------- *)
(* C16: explicit full on the bulk lookup                                   *)
(* ---------------------------------------------------------------------- *)
\* C16: a bulk lookup with resolution full reads the raw tier for every
\* span, also 90 days.
C16_FullOverride == (request.kind = "bulk" /\ request.resolution = "full" /\ MaxTracksOk(request.max_tracks)) => (response.status # 422 /\ response.table = "aircraft_positions")

\* A bulk lookup over 90 days with resolution full, served from the raw
\* table.
C16_Witness == /\ Answered("bulk")
               /\ request.resolution = "full"
               /\ Span = Days(90)
               /\ response.status = 200
               /\ response.table = "aircraft_positions"
               /\ response.rows # <<>>

(* ---------------------------------------------------------------------- *)
(* The bulk response against the tables: what C17 to C20 speak of          *)
(* ---------------------------------------------------------------------- *)
\* A bulk request has been served.
BulkAnswer == request.kind = "bulk" /\ response.status = 200

\* The rows of the table the request read that lie in its window and pass
\* its altitude bounds, by their index in the table.
AltitudeOk(alt) == /\ request.min_altitude = <<>> \/ (alt # <<>> /\ alt[1] >= request.min_altitude[1])
                   /\ request.max_altitude = <<>> \/ (alt # <<>> /\ alt[1] <= request.max_altitude[1])

Matching == {i \in 1..Len(TableRows(response.table)) : LET row == TableRows(response.table)[i] IN row.time >= response.start /\ row.time <= response.end /\ AltitudeOk(row.alt_baro)}

CountOf(icao) == Cardinality({i \in Matching : TableRows(response.table)[i].icao = icao})

\* The military flag the metadata table holds for an identifier.
Flag(icao) == IF icao \notin DOMAIN aircraft_metadata THEN "unknown" ELSE IF aircraft_metadata[icao].is_military THEN "true" ELSE "false"

AllIcaos == {"00aaaa", "abc123", "def456"}

\* The aircraft that may be ranked, and those the response carries.
Eligible == {icao \in AllIcaos : CountOf(icao) > 0 /\ (request.military_only => Flag(icao) # "false")}

Kept == {response.tracks[i].icao : i \in 1..Len(response.tracks)}

Requested == IF request.max_tracks = <<>> THEN DefaultMaxTracks ELSE request.max_tracks[1]

(* ---------------------------------------------------------------------- *)
(* C17: the military-only scenario                                         *)
(* ---------------------------------------------------------------------- *)
\* The scenario: a served bulk query over 3 days with military_only, no
\* altitude bound and the default max_tracks; m is flagged military in the
\* metadata, u has a metadata row that is not, both have rows in the window.
MilitaryScenario(m, u) == /\ BulkAnswer
                          /\ Span = Days(3)
                          /\ request.military_only
                          /\ request.max_tracks = <<>>
                          /\ request.min_altitude = <<>>
                          /\ request.max_altitude = <<>>
                          /\ Flag(m) = "true"
                          /\ Flag(u) = "false"
                          /\ CountOf(m) > 0
                          /\ CountOf(u) > 0

\* C17 as stated: the response of the scenario carries positions of both
\* aircraft.
C17_Original == \A m, u \in AllIcaos : MilitaryScenario(m, u) => (m \in Kept /\ u \in Kept)

\* C17 as amended: the response of the scenario carries the positions of
\* the aircraft flagged military and none of the aircraft whose metadata
\* row, as the collector writes it, holds the flag false.
C17_MilitaryScenario == \A m, u \in AllIcaos : MilitaryScenario(m, u) => /\ m \in Kept
                                                                         /\ u \notin Kept
                                                                         /\ \A i \in 1..Len(response.rows) : response.rows[i].icao # u

\* The scenario with abc123 flagged and def456 not: abc123 is returned,
\* def456 is not.
C17_Witness == /\ MilitaryScenario("abc123", "def456")
               /\ "abc123" \in Kept
               /\ "def456" \notin Kept

(* ---------------------------------------------------------------------- *)
(* C18: the military-only filter                                           *)
(* ---------------------------------------------------------------------- *)
\* C18: with military_only an aircraft with rows passing the filters is
\* left out when its metadata flag is false, and is ranked when the flag is
\* true or it has no metadata row (so it is returned whenever max_tracks
\* covers all ranked aircraft); without military_only no aircraft is left
\* out for its metadata.
C18_MilitaryFilter == BulkAnswer => \A icao \in AllIcaos : /\ ((request.military_only /\ Flag(icao) = "false") => icao \notin Kept)
                                                          /\ (icao \in Kept => CountOf(icao) > 0)
                                                          /\ ((CountOf(icao) > 0 /\ Requested >= Cardinality(AllIcaos) /\ (~request.military_only \/ Flag(icao) \in {"true", "unknown"})) => icao \in Kept)

\* With military_only, the flagged aircraft and the aircraft without
\* metadata row are returned, the aircraft with the flag false is not.
C18_Witness == /\ BulkAnswer
               /\ request.military_only
               /\ Flag("abc123") = "true"
               /\ Flag("00aaaa") = "unknown"
               /\ Flag("def456") = "false"
               /\ CountOf("def456") > 0
               /\ Kept = {"abc123", "00aaaa"}

(* ---------------------------------------------------------------------- *)
(* C19: the top-N bound                                                    *)
(* ---------------------------------------------------------------------- *)
\* C19: an accepted max_tracks is at most 10,000; a served response carries
\* at most max_tracks aircraft, as many as are eligible when fewer, none of
\* them with a lower count of rows passing the filters than an eligible
\* aircraft left out; every returned row and every position of a track is a
\* row of a kept aircraft inside the window and the altitude bounds.
C19_TopN == /\ (request.kind = "bulk" /\ response.status # 422) => Requested <= MaxTracksCap
            /\ BulkAnswer => /\ Cardinality(Kept) <= Requested
                             /\ Kept \subseteq Eligible
                             /\ Cardinality(Kept) = (IF Requested < Cardinality(Eligible) THEN Requested ELSE Cardinality(Eligible))
                             /\ \A a \in Kept, b \in Eligible \ Kept : CountOf(a) >= CountOf(b)
                             /\ \A i \in 1..Len(response.rows) : /\ response.rows[i].icao \in Kept
                                                                 /\ \E j \in Matching : TableRows(response.table)[j].icao = response.rows[i].icao /\ TableRows(response.table)[j].time = response.rows[i].time
                             /\ \A i \in 1..Len(response.tracks) : \A k \in 1..Len(response.tracks[i].positions) : \E j \in Matching : /\ TableRows(response.table)[j].icao = response.tracks[i].icao
                                                                                                                                       /\ TableRows(response.table)[j].time = response.tracks[i].positions[k].time
                                                                                                                                       /\ TableRows(response.table)[j].alt_baro = response.tracks[i].positions[k].alt

\* max_tracks 1 with an altitude floor and military_only: of two eligible
\* aircraft one is returned, and an aircraft with more rows is left out for
\* its flag.
C19_Witness == /\ BulkAnswer
               /\ request.max_tracks = <<1>>
               /\ request.min_altitude # <<>>
               /\ request.military_only
               /\ Cardinality(Eligible) = 2
               /\ Cardinality(Kept) = 1
               /\ \E icao \in AllIcaos \ Eligible : \A a \in Kept : CountOf(icao) > CountOf(a)

(* ---------------------------------------------------------------------- *)
(* C20: result shaping                                                     *)
(* ---------------------------------------------------------------------- *)
\* The positions the rows of one identifier give, in the order of the rows.
RowPositions(rows, icao) == LET Test(row) == row.icao = icao IN LET own == SelectSeq(rows, Test) IN [k \in 1..Len(own) |-> [time |-> own[k].time, lat |-> own[k].lat, lon |-> own[k].lon, alt |-> own[k].alt_baro]]

\* C20: the tracks of a served response are one per identifier occurring in
\* the returned rows, each with exactly the rows of its identifier in the
\* order returned, and none with an empty position list.
C20_ResultShaping == BulkAnswer => /\ Kept = {response.rows[i].icao : i \in 1..Len(response.rows)}
                                   /\ \A i, j \in 1..Len(response.tracks) : response.tracks[i].icao = response.tracks[j].icao => i = j
                                   /\ \A i \in 1..Len(response.tracks) : /\ response.tracks[i].positions = RowPositions(response.rows, response.tracks[i].icao)
                                                                         /\ response.tracks[i].positions # <<>>

\* A response with several tracks, one of several positions, while an
\* aircraft of the table has no row in the window.
C20_Witness == /\ BulkAnswer
               /\ Len(response.tracks) >= 2
               /\ \E i \in 1..Len(response.tracks) : Len(response.tracks[i].positions) >= 2
               /\ \E i \in 1..Len(response.tracks) : Len(response.tracks[i].positions) = 1
               /\ \E icao \in AllIcaos : CountOf(icao) = 0 /\ icao \notin Kept

(* ---------------------------------------------------------------------- *)
(* Specification of the loop under fair scheduling                         *)
(* ---------------------------------------------------------------------- *)
\* The loop within the first 24 hours after its start, when no refresh of
\* the reference dataset is due.
\* No data, a snapshot that is stored, a snapshot whose transform raises.
CoopFeed == {NoData, ScenarioSnapshot, Snapshot(<<MalformedAircraft>>)}

NextCoop == \/ Start
            \/ StartLoadDone
            \/ LoopExit
            \/ TickBegin
            \/ FetchDone(CoopFeed)
            \/ InsertDone
            \/ UpsertDone
            \/ PenaltyDone
            \/ SleepDone
            \/ Stop

\* The steps of the collector task.  Every await of the task ends: the
\* feeder request has a total timeout of 10 s (line 239), the download one
\* of 60 s (line 178), the sleeps are finite (lines 372, 375, 380) and the
\* pool has a command timeout; the event loop then resumes the task.
CollectorStep == \/ Start
                 \/ StartLoadDone
                 \/ LoopExit
                 \/ TickBegin
                 \/ FetchDone(CoopFeed)
                 \/ InsertDone
                 \/ UpsertDone
                 \/ PenaltyDone
                 \/ SleepDone

SpecCoop == Init /\ [][NextCoop]_vars /\ WF_vars(CollectorStep)

(* ---------------------------------------------------------------------- *)
(* C21: cooperative stop                                                   *)
(* ---------------------------------------------------------------------- *)
\* Where the collector task can be after its next step when no new tick may
\* start: the rest of the tick in progress, in order, then the loop's exit.
StepsAfterStop(p) == CASE p = "start" -> {"startload", "top"}
                       [] p = "startload" -> {"top"}
                       [] p = "top" -> {"done"}
                       [] p = "fetch" -> {"insert", "sleep", "penalty", "errsleep"}
                       [] p = "insert" -> {"upsert", "sleep"}
                       [] p = "upsert" -> {"sleep"}
                       [] p = "penalty" -> {"sleep"}
                       [] p = "sleep" -> {"top"}
                       [] p = "errsleep" -> {"top"}
                       [] OTHER -> {}

\* C21: stop() clears the running flag and changes nothing else of the
\* collector; the flag never comes back; once it is cleared the task's next
\* steps are the remaining steps of the tick in progress, its sleeps
\* included, the loop-top check that follows starts no tick but leaves the
\* loop, which is the only way out of the loop; and under fair scheduling
\* the loop does exit.
C21_CooperativeStop == /\ [][(running /\ ~running') => UNCHANGED <<pc, consecutive_errors, last_db_refresh, sleep_for, batch, storeVars, cacheVars>>]_vars
                       /\ [][~running => ~running']_vars
                       /\ [][(~running /\ pc' # pc) => pc' \in StepsAfterStop(pc)]_vars
                       /\ [][(pc' = "done" /\ pc # "done") => (pc = "top" /\ ~running)]_vars
                       /\ (~running ~> pc = "done")

\* The flag has been cleared and the tick in progress has gone on to its
\* second database step, still holding its batch.
C21_Witness == ~running /\ pc = "upsert" /\ batch # NoBatch

(* ---------------------------------------------------------------------- *)
(* shutdown() (lines 444-465) and the cancellation of the collector task   *)
(* ---------------------------------------------------------------------- *)
\* The frame of a step of shutdown() that leaves the collector task alone.
shutdownFrame == <<apiVars, feeder, now, pc, consecutive_errors, last_db_refresh, sleep_for, batch, storeVars, other_pc, cacheVars, tickVars>>

\* The collector task has been asked to cancel and has not yet unwound.
Cancelling == {"cancel", "cancel_load"}

\* The task is over: collect_loop returned, or CancelledError left run().
TaskDone == pc \in {"done", "cancelled"}

\* Lines 449-455 skipped: the pool is closed without waiting for the task.
ShutdownClosesFirst == /\ shutdown_pc = "idle"
                       /\ running' = FALSE
                       /\ shutdown_pc' = "closing"
                       /\ UNCHANGED <<db_pool, shutdownFrame>>

\* Lines 449-455: stop() clears the flag, then wait_for(collector_task, 10.0)
\* suspends shutdown() and arms its timer.
Shutdown == /\ shutdown_pc = "idle"
            /\ running' = FALSE
            /\ shutdown_pc' = "waiting"
            /\ UNCHANGED <<db_pool, shutdownFrame>>

\* Line 455: the task finished while the timer was armed; wait_for returns
\* and line 462 awaits the pool's close.
WaitReturns == /\ shutdown_pc = "waiting"
               /\ pc = "done"
               /\ shutdown_pc' = "closing"
               /\ UNCHANGED <<running, db_pool, shutdownFrame>>

\* Line 455: the timer of wait_for fires after 10 seconds; how many steps
\* the collector task has made by then is not determined.
GraceExpires == /\ shutdown_pc = "waiting"
                /\ shutdown_pc' = "expired"
                /\ UNCHANGED <<running, db_pool, shutdownFrame>>

\* Line 455: wait_for resumes after its timer.  A task that has finished in
\* the meantime gives its result; any other task is cancelled, and wait_for
\* waits until the cancellation has been delivered.
WaitResumes == /\ shutdown_pc = "expired"
               /\ IF pc = "done" THEN shutdown_pc' = "closing" /\ UNCHANGED pc ELSE shutdown_pc' = "cancelwait" /\ pc' = (IF pc \in {"startload", "refresh"} THEN "cancel_load" ELSE "cancel")
               /\ UNCHANGED <<apiVars, feeder, running, db_pool, now, consecutive_errors, last_db_refresh, sleep_for, batch, storeVars, other_pc, cacheVars, tickVars>>

\* CancelledError is raised at the await the task is suspended in.  It is
\* not an Exception, so lines 210-219, 247-252, 344, 377 and 388 let it
\* pass; the finally of lines 220-221 clears the flag of a load in flight.
TaskUnwindsKeepsFlag == /\ pc \in Cancelling
                        /\ pc' = "cancelled"
                        /\ UNCHANGED <<lifeVars, apiVars, running, now, consecutive_errors, last_db_refresh, sleep_for, batch, storeVars, other_pc, cacheVars, tickVars>>

TaskUnwinds == /\ pc \in Cancelling
               /\ pc' = "cancelled"
               /\ military_db_loading' = (IF pc = "cancel_load" THEN FALSE ELSE military_db_loading)
               /\ UNCHANGED <<lifeVars, apiVars, running, now, consecutive_errors, last_db_refresh, sleep_for, batch, storeVars, other_pc, military_database, military_db_last_updated, load_exit, last_load, tickVars>>

\* Lines 457-459: wait_for raises TimeoutError once the task is cancelled;
\* cancel() on the finished task does nothing; line 462 awaits the close.
WaitTimesOut == /\ shutdown_pc = "cancelwait"
                /\ pc = "cancelled"
                /\ shutdown_pc' = "closing"
                /\ UNCHANGED <<running, db_pool, shutdownFrame>>

\* Lines 462-464.
PoolClosed == /\ shutdown_pc = "closing"
              /\ db_pool' = "closed"
              /\ shutdown_pc' = "closed"
              /\ UNCHANGED <<running, shutdownFrame>>

ShutdownFeed == {NoData, ScenarioSnapshot}

NextShutdown == \/ Start
                \/ StartLoadDone
                \/ LoopExit
                \/ TickBegin
                \/ FetchDone(ShutdownFeed)
                \/ InsertDone
                \/ UpsertDone
                \/ PenaltyDone
                \/ SleepDone
                \/ Shutdown
                \/ WaitReturns
                \/ GraceExpires
                \/ WaitResumes
                \/ TaskUnwinds
                \/ WaitTimesOut
                \/ PoolClosed

SpecShutdown == Init /\ [][NextShutdown]_vars

(* ---------------------------------------------------------------------- *)
(* C22: graceful shutdown                                                  *)
(* ---------------------------------------------------------------------- *)
\* C22: shutdown() clears the running flag before anything else and then
\* waits for the collector task; the task is cancelled only when the grace
\* period has expired and the task has not finished by then; and the pool
\* is being closed or closed only once the task has finished or has been
\* cancelled.
C22_GracefulShutdown == /\ [](shutdown_pc # "idle" => ~running)
                        /\ [][(shutdown_pc = "idle" /\ shutdown_pc' # "idle") => (shutdown_pc' = "waiting" /\ db_pool' = "open" /\ pc' = pc)]_vars
                        /\ [][(pc' \in Cancelling /\ pc \notin Cancelling) => (shutdown_pc = "expired" /\ pc # "done")]_vars
                        /\ [](pc \in Cancelling \cup {"cancelled"} => shutdown_pc \in {"cancelwait", "closing", "closed"})
                        /\ []((shutdown_pc \in {"closing", "closed"} \/ db_pool = "closed") => TaskDone)

\* The pool has been closed after a task that did not finish within the
\* grace period was cancelled in the middle of a tick that held a batch.
C22_Witness == db_pool = "closed" /\ pc = "cancelled" /\ batch # NoBatch

(* ---------------------------------------------------------------------- *)
(* C23: isolation of persistence failures                                  *)
(* ---------------------------------------------------------------------- *)
\* The step in which a statement of the tick's persistence fails.
PersistFails == pc \in {"insert", "upsert"} /\ persisted' \in {"insert_failed", "upsert_failed"}

\* C23: a failing insert or upsert ends store_positions normally: the tick
\* resets the failure counter as after any store and goes to its
\* poll-interval sleep, the failing statement having written nothing; the
\* sleep leads to the next loop-top check without the batch; and whatever a
\* tick writes to either table is built from the snapshot of that tick.
C23_FailureIsolation == /\ [][PersistFails => (pc' = "sleep" /\ sleep_for' = collection_interval /\ consecutive_errors' = 0 /\ aircraft_metadata' = aircraft_metadata /\ (pc = "insert" => aircraft_positions' = aircraft_positions))]_vars
                        /\ [][(pc = "sleep" /\ pc' # pc) => (pc' = "top" /\ batch' = NoBatch)]_vars
                        /\ [](pc \in {"start", "startload", "top", "fetch"} => batch = NoBatch)
                        /\ [][aircraft_positions' # aircraft_positions => aircraft_positions' = aircraft_positions \o BuildPositions(last_data.aircraft, now)]_vars
                        /\ [][aircraft_metadata' # aircraft_metadata => aircraft_metadata' = UpsertAll(aircraft_metadata, BuildMetadata(last_data.aircraft), now)]_vars

\* The upsert of a tick has failed after an earlier tick stored a row: the
\* tick is in its poll-interval sleep with the counter at zero, and the
\* metadata table is as the earlier tick left it.
C23_Witness == /\ persisted = "upsert_failed"
               /\ pc = "sleep"
               /\ consecutive_errors = 0
               /\ Len(aircraft_positions) = 2
               /\ Len(batch.positions) = 1
               /\ aircraft_positions[1].icao # aircraft_positions[2].icao
               /\ batch.metadata_updates # <<>>
               /\ batch.metadata_updates[1].icao \notin DOMAIN aircraft_metadata

(* ---------------------------------------------------------------------- *)
(* C24: one poll-interval sleep between two feeder requests                *)
(* ---------------------------------------------------------------------- *)
\* C24: whenever the collector is in a feeder request other than its first,
\* exactly one sleep has ended since the request before, and that sleep was
\* of the poll interval, whatever the earlier tick did; the penalty pause
\* is not that sleep but is followed by it.
C24_IntervalSpacing == /\ [](pc = "fetch" => interval_sleeps = (IF last_data.kind = "init" THEN 0 ELSE 1))
                       /\ [][interval_sleeps' # interval_sleeps => (interval_sleeps' = 0 \/ (interval_sleeps' = interval_sleeps + 1 /\ pc \in {"sleep", "errsleep"} /\ sleep_for = collection_interval))]_vars
                       /\ [][(pc = "penalty" /\ pc' # pc) => (sleep_for = PenaltySeconds /\ pc' = "sleep" /\ sleep_for' = collection_interval /\ interval_sleeps' = 0)]_vars
                       /\ [][(pc' = "top" /\ pc \notin {"top", "start", "startload"}) => (pc \in {"sleep", "errsleep"} /\ interval_sleeps' = 1)]_vars

\* The request that follows a tick with a penalty pause: one poll-interval
\* sleep has ended since the tenth empty fetch.
C24_Witness == pc = "fetch" /\ interval_sleeps = 1 /\ none_streak = max_consecutive_errors /\ consecutive_errors = 0 /\ last_data = NoData

(* ---------------------------------------------------------------------- *)
(* fetch_aircraft_data (lines 236-252) over the outcomes of its request    *)
(* ---------------------------------------------------------------------- *)
\* The request times out (asyncio.TimeoutError), fails in the transport
\* (a connection error or any other exception of the client), or is
\* answered with a status and a body text.
Timeout == [kind |-> "timeout", status |-> 0, body |-> ""]

TransportError == [kind |-> "error", status |-> 0, body |-> ""]

Response(status, body) == [kind |-> "response", status |-> status, body |-> body]

ScenarioBody == "{\"aircraft\": [{\"hex\": \"ABC123\", \"lat\": 10.0, \"lon\": 20.0, \"r\": \"N12345\"}]}"

\* Line 243, resp.json(): the document a body text stands for; a text that
\* is not JSON raises.
ParseJson(body) == CASE body = "null" -> [raises |-> FALSE, value |-> NoData]
                     [] body = "{}" -> [raises |-> FALSE, value |-> EmptyBody]
                     [] body = "{\"now\": 1}" -> [raises |-> FALSE, value |-> NoAircraftKey]
                     [] body = "{\"aircraft\": []}" -> [raises |-> FALSE, value |-> Snapshot(<<>>)]
                     [] body = ScenarioBody -> [raises |-> FALSE, value |-> ScenarioSnapshot]
                     [] OTHER -> [raises |-> TRUE, value |-> NoData]

\* Lines 242-252: the parsed body of a 200; None for any other status
\* (line 246), for a timeout (line 249), and for any other exception, that
\* of resp.json() included (line 252).
Returns(value) == [raises |-> FALSE, value |-> value]

fetch_aircraft_dataUncaught(outcome) == IF outcome.kind = "response" /\ outcome.status # 200 THEN Returns(NoData) ELSE IF outcome.kind = "response" THEN ParseJson(outcome.body) ELSE [raises |-> TRUE, value |-> NoData]

fetch_aircraft_data(outcome) == CASE outcome.kind = "timeout" -> Returns(NoData)
                                  [] outcome.kind = "error" -> Returns(NoData)
                                  [] OTHER -> IF outcome.status = 200 THEN (IF ParseJson(outcome.body).raises THEN Returns(NoData) ELSE Returns(ParseJson(outcome.body).value)) ELSE Returns(NoData)

\* What line 363 would do with an exception out of fetch_aircraft_data:
\* lines 377-380.
FetchRaised == /\ TickGhosts([kind |-> "raised", aircraft |-> <<>>])
               /\ consecutive_errors < MaxErrors
               /\ consecutive_errors' = ErrorCount(consecutive_errors)
               /\ pc' = "errsleep"
               /\ sleep_for' = collection_interval
               /\ UNCHANGED <<batch, cache_at_transform>>

\* Line 363 with the request spelled out: the request ends in one of the
\* outcomes, fetch_aircraft_data turns it into its return value, and the
\* tick goes on to its next await.
RequestDone(outcomes) == /\ pc = "fetch"
                         /\ \E outcome \in outcomes : /\ feeder' = outcome
                                                      /\ IF fetch_aircraft_data(outcome).raises THEN FetchRaised ELSE /\ TickGhosts(fetch_aircraft_data(outcome).value)
                                                                                                                      /\ \/ FetchNoData(fetch_aircraft_data(outcome).value)
                                                                                                                         \/ TickNothingToStore(fetch_aircraft_data(outcome).value)
                                                                                                                         \/ TickRaises(fetch_aircraft_data(outcome).value)
                                                                                                                         \/ TickBuildsBatch(fetch_aircraft_data(outcome).value)
                         /\ UNCHANGED <<shutdown_pc, db_pool, apiVars, running, now, last_db_refresh, storeVars, other_pc, cacheVars>>

Bodies == {"null", "{}", "{\"now\": 1}", "{\"aircraft\": []}", ScenarioBody, "<html>Bad Gateway</html>", ""}

FeederOutcomes == {Timeout, TransportError} \cup {Response(status, body) : status \in {200, 404, 502}, body \in Bodies}

NextFetch == \/ Start
             \/ StartLoadDone
             \/ LoopExit
             \/ TickBegin
             \/ RequestDone(FeederOutcomes)
             \/ InsertDone
             \/ UpsertDone
             \/ PenaltyDone
             \/ SleepDone
             \/ Stop

SpecFetch == Init /\ [][NextFetch]_vars

(* ---------------------------------------------------------------------- *)
(* C25: the feeder fetch never raises                                      *)
(* ---------------------------------------------------------------------- *)
\* The outcome of the last request and what the loop got for it.
Returned(outcome, data) == feeder = outcome /\ last_data = data

\* C25: after every request the loop holds a return value, never an
\* exception: the no-data value after a timeout, after a transport error,
\* after any status other than 200 whatever the body, and after a 200 whose
\* body does not parse; and a value other than the no-data value only after
\* a 200, and then the document its body stands for.
C25_FetchNeverRaises == /\ feeder.kind # "none" => last_data.kind \notin {"raised", "init"}
                        /\ feeder.kind \in {"timeout", "error"} => last_data = NoData
                        /\ (feeder.kind = "response" /\ feeder.status # 200) => last_data = NoData
                        /\ (feeder.kind = "response" /\ feeder.body \in {"<html>Bad Gateway</html>", ""}) => last_data = NoData
                        /\ (feeder.kind # "none" /\ last_data # NoData) => (feeder.kind = "response" /\ feeder.status = 200 /\ ~ParseJson(feeder.body).raises /\ last_data = ParseJson(feeder.body).value)
                        /\ Returned(Response(200, ScenarioBody), last_data) => last_data = ScenarioSnapshot
                        /\ Returned(Response(200, "{}"), last_data) => last_data = EmptyBody

\* A 404 whose body is a well-formed snapshot has given the no-data value,
\* and the tick has counted a failure.
C25_Witness == Returned(Response(404, ScenarioBody), NoData) /\ pc = "sleep" /\ consecutive_errors = 1

(* ---------------------------------------------------------------------- *)
(* Specification of lookups next to loads                                  *)
(* ---------------------------------------------------------------------- *)
\* Ticks that look identifiers up in the cache, a clock that makes the
\* cache stale, and a second caller of load_military_database whose
\* download can be in flight while a tick runs.
CacheFeed == {NoAircraftKey, ScenarioSnapshot}

NextCache == \/ Start
             \/ StartLoadDone
             \/ TickBegin
             \/ RefreshDone
             \/ FetchDone(CacheFeed)
             \/ InsertDone
             \/ UpsertDone
             \/ SleepDone
             \/ TimePasses(Durations)
             \/ OtherLoadCall
             \/ OtherLoadDone

SpecCache == Init /\ [][NextCache]_vars

(* ---------------------------------------------------------------------- *)
(* C27: the cache is replaced wholesale                                    *)
(* ---------------------------------------------------------------------- *)
\* The cache is the whole mapping of a document: a key for each of its
\* entries flagged "10" and for no other, each with the fields of its entry.
CompleteMapping(cache, db_data) == /\ ~cache.none
                                   /\ DOMAIN cache.db = FlaggedKeys("ok", db_data)
                                   /\ \A k \in DOMAIN cache.db : \E p \in db_data : upper(p[1]) = k /\ cache.db[k].tail = p[2][1] /\ cache.db[k].type = p[2][2] /\ cache.db[k].flag = "10"

\* The step in which a tick transforms its snapshot and looks its entries up.
Transforms == pc = "fetch" /\ pc' = "insert"

\* C27: the cache is always unset, empty, or the whole mapping of one
\* document; it changes only in the step that ends a download, to what
\* that download carried, so that it stays as it was for as long as a
\* download is in flight; and a tick that looks identifiers up, a download
\* in flight or not, gets for each the answer of the cache as it then is.
C27_WholesaleCache == /\ [](military_database.none \/ DOMAIN military_database.db = {} \/ \E db_data \in Docs : CompleteMapping(military_database, db_data))
                      /\ [][military_database' # military_database => (military_db_loading /\ ~military_db_loading' /\ last_load'.done /\ ~military_database'.none /\ DOMAIN military_database'.db = last_load'.keys)]_vars
                      /\ [][(military_db_loading /\ military_db_loading') => military_database' = military_database]_vars
                      /\ [][Transforms => (cache_at_transform' = military_database /\ \A i \in 1..Len(batch'.metadata_updates) : batch'.metadata_updates[i].is_military = LookupAt(military_database, batch'.metadata_updates[i].icao))]_vars

\* A tick has looked ABC123 up while the second caller's download was in
\* flight (the tick's own refresh call was turned away, so the cache still
\* carries its old timestamp): it found it in the previous cache.
C27_Witness == /\ pc = "insert"
               /\ other_pc = "fetching"
               /\ military_db_loading
               /\ military_db_last_updated # NoTime
               /\ last_db_refresh > military_db_last_updated
               /\ cache_at_transform = military_database
               /\ CompleteMapping(military_database, DocA)
               /\ batch.metadata_updates # <<>>
               /\ batch.metadata_updates[1].is_military

(* ---------------------------------------------------------------------- *)
(* Specification of ticks with a refresh, under fair scheduling            *)
(* ---------------------------------------------------------------------- *)
NextRefresh == \/ Start
               \/ StartLoadDone
               \/ TickBegin
               \/ RefreshDone
               \/ FetchDone(CacheFeed)
               \/ InsertDone
               \/ UpsertDone
               \/ SleepDone
               \/ TimePasses(Durations)

\* The download of a refresh ends: its request has a total timeout of 60
\* seconds (line 178), after which the event loop resumes the task.
SpecRefresh == Init /\ [][NextRefresh]_vars /\ WF_vars(RefreshDone)

(* ---------------------------------------------------------------------- *)
(* C26: a refresh does not abort its tick                                  *)
(* ---------------------------------------------------------------------- *)
\* C26: a tick that finds the refresh due goes on to the refresh or, when
\* the call returns at once, to the feeder request; the step that ends the
\* refresh, however it ends, takes the tick to the feeder request; and a
\* tick that is in its refresh does reach its feeder request.
C26_RefreshThenFetch == /\ [][(pc = "top" /\ RefreshDue /\ pc' # pc) => pc' \in {"refresh", "fetch"}]_vars
                        /\ [][(pc = "refresh" /\ pc' # pc) => (pc' = "fetch" /\ load_exit' \in LoadOutcomes /\ last_db_refresh' = now /\ last_data' = last_data)]_vars
                        /\ [](pc = "refresh" => military_db_loading)
                        /\ (pc = "refresh" ~> pc = "fetch")

\* The second tick, begun 25 hours after the first stored its row, is in
\* its feeder request after its refresh timed out and emptied the cache.
C26_Witness == /\ pc = "fetch"
               /\ e2e = "scenario"
               /\ aircraft_positions # <<>>
               /\ aircraft_positions[1].time = 0
               /\ now > RefreshHours
               /\ load_exit = "timeout"
               /\ last_db_refresh = now
               /\ military_db_last_updated = now
               /\ DOMAIN military_database.db = {}

(* ---------------------------------------------------------------------- *)
(* C28: stored identifiers are canonical                                   *)
(* ---------------------------------------------------------------------- *)
\* The lowercase identifiers of the entries of a snapshot that have both
\* coordinates and an identifier that is neither missing nor empty, in order.
RECURSIVE Identifiers(_)
Identifiers(aircraft_list) == IF aircraft_list = <<>> THEN <<>> ELSE (IF Head(aircraft_list).lat # NoKey /\ Head(aircraft_list).lon # NoKey /\ Head(aircraft_list).hex \notin {NoKey, ""} THEN <<lower(Head(aircraft_list).hex)>> ELSE <<>>) \o Identifiers(Tail(aircraft_list))

Canonical(icao) == icao # "" /\ icao = lower(icao) /\ icao # NoKey

\* C28: every stored position row and every metadata row has a non-empty
\* lowercase identifier; the position records a tick builds carry, in
\* order, the lowercase identifiers of its snapshot's entries that have an
\* identifier, one each, and its metadata records carry identifiers from
\* among them; an entry whose identifier is missing or empty adds none.
C28_CanonicalIdentifiers == /\ \A i \in 1..Len(aircraft_positions) : Canonical(aircraft_positions[i].icao)
                            /\ \A k \in DOMAIN aircraft_metadata : Canonical(k)
                            /\ pc \in {"insert", "upsert"} => /\ [i \in 1..Len(batch.positions) |-> batch.positions[i].icao] = Identifiers(last_data.aircraft)
                                                              /\ \A i \in 1..Len(batch.metadata_updates) : \E j \in 1..Len(batch.positions) : batch.metadata_updates[i].icao = batch.positions[j].icao
                            /\ (pc \in {"insert", "upsert"} /\ \A i \in 1..Len(last_data.aircraft) : last_data.aircraft[i].hex \in {NoKey, ""}) => FALSE

\* A snapshot with an entry whose identifier is empty (and which has a
\* registration) before an entry DEF456 has been stored: one row and one
\* metadata record, for def456.
C28_Witness == /\ persisted = "ok"
               /\ Len(last_data.aircraft) = 2
               /\ last_data.aircraft[1].hex = ""
               /\ last_data.aircraft[1].r = "N888"
               /\ last_data.aircraft[2].hex = "DEF456"
               /\ Len(batch.positions) = 1
               /\ batch.positions[1].icao = "def456"
               /\ aircraft_positions[Len(aircraft_positions)].icao = "def456"
               /\ Len(batch.metadata_updates) = 1
               /\ "def456" \in DOMAIN aircraft_metadata

(* ---------------------------------------------------------------------- *)
(* Specification of stores while the clock moves                           *)
(* ---------------------------------------------------------------------- *)
\* Snapshots of one and of two entries, among them entries that are not
\* retained, with the clock free to move between any two steps of a tick.
AppendEntries == { ScenarioAircraft,
                   Aircraft("def456", "10.0", "20.0", None, None, None, None, None, None),
                   Aircraft("def456", NoKey, "20.0", "N888", None, None, None, None, None),
                   Aircraft("", "10.0", "20.0", "N888", None, None, None, None, None),
                   Aircraft("abc123", "10.0", "20.0", None, None, None, None, None, "A3"),
                   Aircraft("abc123", "10.0", "20.0", None, "C17", None, None, None, None),
                   Aircraft("def456", "10.0", "20.0", "", None, "BOEING", "OTHER", "2010", None) }

AppendFeed == {Snapshot(<<a>>) : a \in AppendEntries} \cup {Snapshot(<<a, b>>) : a \in AppendEntries, b \in SecondEntries}

NextAppend == \/ Start
              \/ StartLoadDone
              \/ TickBegin
              \/ RefreshDone
              \/ FetchDone(AppendFeed)
              \/ InsertDone
              \/ UpsertDone
              \/ SleepDone
              \/ TimePasses(Durations)

SpecAppend == Init /\ [][NextAppend]_vars

(* ---------------------------------------------------------------------- *)
(* C29: positions are append-only                                          *)
(* ---------------------------------------------------------------------- *)
\* The step in which the insert of a tick succeeds.
InsertApplied == pc = "insert" /\ pc' # pc /\ persisted' # "insert_failed"

\* C29: the transform of a tick builds one position record for each entry
\* of its snapshot that has both coordinates and an identifier, each
\* stamped with the clock of that step; a successful insert appends exactly
\* these records, as built, to the table; and no step of the collector
\* changes or removes a row that is in the table.
C29_AppendOnly == /\ [][Transforms => (Len(batch'.positions) = Len(Identifiers(last_data'.aircraft)) /\ \A i \in 1..Len(batch'.positions) : batch'.positions[i].time = now)]_vars
                  /\ [][InsertApplied => (/\ Len(aircraft_positions') = Len(aircraft_positions) + Len(Identifiers(last_data.aircraft))
                                          /\ \A i \in 1..Len(batch.positions) : aircraft_positions'[Len(aircraft_positions) + i] = batch.positions[i]
                                          /\ \A i, j \in 1..Len(batch.positions) : batch.positions[i].time = batch.positions[j].time)]_vars
                  /\ [][Len(aircraft_positions') >= Len(aircraft_positions) /\ \A i \in 1..Len(aircraft_positions) : aircraft_positions'[i] = aircraft_positions[i]]_vars
                  /\ [][aircraft_positions' # aircraft_positions => InsertApplied]_vars

\* The two rows of a two-entry snapshot are in the table, both stamped with
\* the hour the tick built them, although the insert ended 25 hours later.
C29_Witness == /\ persisted = "ok"
               /\ Len(last_data.aircraft) = 2
               /\ Len(aircraft_positions) = 2
               /\ aircraft_positions[1].time = 0
               /\ aircraft_positions[2].time = 0
               /\ aircraft_positions[1].icao # aircraft_positions[2].icao
               /\ now > 0

(* ---------------------------------------------------------------------- *)
(* C30: when a metadata record is built                                    *)
(* ---------------------------------------------------------------------- *)
\* The entry has a registration, a type or a category: a value other than
\* None and other than the empty string.
CarriesInfo(aircraft) == \E v \in {aircraft.r, aircraft.t, aircraft.category} : v \notin {None, ""}

\* The lowercase identifiers of the entries with both coordinates and an
\* identifier that carry such a value, in order.
RECURSIVE InfoIdentifiers(_)
InfoIdentifiers(aircraft_list) == IF aircraft_list = <<>> THEN <<>> ELSE (IF Identifiers(<<Head(aircraft_list)>>) # <<>> /\ CarriesInfo(Head(aircraft_list)) THEN Identifiers(<<Head(aircraft_list)>>) ELSE <<>>) \o InfoIdentifiers(Tail(aircraft_list))

\* C30: the metadata records a tick builds are, in order, one for each
\* retained entry of its snapshot that has a registration, a type or a
\* category, carrying that entry's registration and type, and none for any
\* other entry; every retained entry has its position record all the same.
C30_MetadataCondition == pc \in {"insert", "upsert"} => /\ [i \in 1..Len(batch.metadata_updates) |-> batch.metadata_updates[i].icao] = InfoIdentifiers(last_data.aircraft)
                                                        /\ Len(batch.positions) = Len(Identifiers(last_data.aircraft))
                                                        /\ Len(last_data.aircraft) = 1 => (Len(batch.metadata_updates) = (IF CarriesInfo(last_data.aircraft[1]) THEN 1 ELSE 0) /\ Len(batch.positions) = 1)
                                                        /\ (Len(last_data.aircraft) = 1 /\ batch.metadata_updates # <<>>) => (batch.metadata_updates[1].registration = last_data.aircraft[1].r /\ batch.metadata_updates[1].aircraft_type = last_data.aircraft[1].t)

\* A snapshot of an entry with nothing but a position and an entry with a
\* registration: two position records, one metadata record.
C30_Witness == /\ pc = "upsert"
               /\ Len(last_data.aircraft) = 2
               /\ ~CarriesInfo(last_data.aircraft[1])
               /\ last_data.aircraft[1].hex = "def456"
               /\ last_data.aircraft[1].lat # NoKey
               /\ CarriesInfo(last_data.aircraft[2])
               /\ Len(batch.positions) = 2
               /\ Len(batch.metadata_updates) = 1
               /\ batch.metadata_updates[1].icao = "abc123"

(* ---------------------------------------------------------------------- *)
(* C31: the failure counter is bounded                                     *)
(* ---------------------------------------------------------------------- *)
\* C31: the consecutive-failure counter never exceeds 10, and whenever it
\* stands at 10, however it got there, the tick is in its penalty pause
\* (after which the counter is zero).
C31_Original == /\ consecutive_errors <= max_consecutive_errors
                /\ consecutive_errors = max_consecutive_errors => pc = "penalty"

(* ---------------------------------------------------------------------- *)
(* C32: no refresh storm after a failed load                               *)
(* ---------------------------------------------------------------------- *)
\* The download that ended last failed: it carried no identifier.
FailedLast == last_load.done /\ last_load.keys = {}

\* ... and it ended less than 24 hours ago.
FailedLately == FailedLast /\ military_db_last_updated # NoTime /\ now - military_db_last_updated < RefreshHours

\* A call of load_military_database is made in this step: by the second
\* caller, by the loop's refresh, or at startup.
LoadCalled == OtherLoadCall \/ (TickBegin /\ RefreshDue) \/ Start

\* C32: once a download has failed the cache is the empty mapping until a
\* later download ends; a call made less than 24 hours after the failure
\* starts no download, leaves cache and timestamp alone and returns True;
\* and the download after a failed one starts 24 hours or more after the
\* failed one ended.
C32_NoRefreshStorm == /\ [](FailedLast => (military_database = [none |-> FALSE, db |-> EmptyDb] /\ military_db_last_updated # NoTime))
                      /\ [][(FailedLately /\ LoadCalled) => (/\ ~military_db_loading'
                                                            /\ military_database' = [none |-> FALSE, db |-> EmptyDb]
                                                            /\ military_db_last_updated' = military_db_last_updated
                                                            /\ load_exit' = "valid"
                                                            /\ LoadReturn(load_exit'))]_vars
                      /\ [](FailedLately => ~military_db_loading)
                      /\ [][(FailedLast /\ FetchStarts) => now - military_db_last_updated >= RefreshHours]_vars

\* The loop's refresh call, made 23 hours after the second caller's
\* download timed out, has returned True at once over the empty cache.
C32_Witness == /\ FailedLast
               /\ now - military_db_last_updated = RefreshHours - 1
               /\ now - last_db_refresh = 0
               /\ now > RefreshHours
               /\ load_exit = "valid"
               /\ pc = "fetch"
               /\ DOMAIN military_database.db = {}
               /\ ~military_db_loading

(* ---------------------------------------------------------------------- *)
(* Specification of the in-progress flag: loads by the collector and by a  *)
(* second caller, a clock, and shutdown() cancelling the collector task    *)
(* ---------------------------------------------------------------------- *)
NextRelease == \/ Start
               \/ StartLoadDone
               \/ LoopExit
               \/ TickBegin
               \/ RefreshDone
               \/ FetchDone(LoadFeed)
               \/ SleepDone
               \/ TimePasses(Durations)
               \/ OtherLoadCall
               \/ OtherLoadDone
               \/ Shutdown
               \/ WaitReturns
               \/ GraceExpires
               \/ WaitResumes
               \/ TaskUnwinds
               \/ WaitTimesOut
               \/ PoolClosed

\* A download in flight ends: its request has a total timeout of 60 seconds
\* (line 178), and a cancelled task is resumed by the event loop with
\* CancelledError at its await.
LoadSettles == StartLoadDone \/ RefreshDone \/ OtherLoadDone \/ TaskUnwinds

SpecRelease == Init /\ [][NextRelease]_vars /\ WF_vars(LoadSettles)

(* ---------------------------------------------------------------------- *)
(* C33: the in-progress flag is always released                            *)
(* ---------------------------------------------------------------------- *)
\* The collector task is inside load_military_database, suspended in the
\* download (also while a cancellation of it is pending).
CollectorInLoad == pc \in {"startload", "refresh", "cancel_load"}

\* A call that set the flag is executing.
LoadExecuting == CollectorInLoad \/ OtherFetching

\* The step in which such a call is left, by return or by CancelledError.
LoadEnds == (CollectorInLoad /\ ~CollectorInLoad') \/ (OtherFetching /\ ~OtherFetching')

\* C33: the flag is set exactly while a call that set it is executing; the
\* step that leaves such a call, on a completed download, a failed one or a
\* cancellation, clears the flag, and a set flag is always cleared again; a
\* call that finds the cache still valid leaves the flag clear; a call made
\* while no load is executing and the cache is unset or stale goes on to
\* the download; a call rejected because the flag was set leaves flag,
\* cache and timestamp as they were and returns False.
C33_FlagReleased == /\ [](military_db_loading <=> LoadExecuting)
                    /\ [][LoadEnds => (~military_db_loading' /\ ~LoadExecuting')]_vars
                    /\ [][(pc = "cancel_load" /\ pc' = "cancelled") => (military_database' = military_database /\ military_db_last_updated' = military_db_last_updated)]_vars
                    /\ [][(LoadCalled /\ LoadEntry = "valid") => (~military_db_loading' /\ load_exit' = "valid")]_vars
                    /\ [][(LoadCalled /\ ~LoadExecuting /\ ~CacheValid) => FetchStarts]_vars
                    /\ [][(LoadCalled /\ military_db_loading) => (/\ military_db_loading'
                                                                 /\ military_database' = military_database
                                                                 /\ military_db_last_updated' = military_db_last_updated
                                                                 /\ load_exit' = "busy"
                                                                 /\ ~LoadReturn(load_exit'))]_vars
                    /\ (military_db_loading ~> ~military_db_loading)

\* The startup download was cancelled by shutdown() before it ended: no
\* download has completed and no call has returned; the second caller's
\* call made afterwards was not rejected and is inside the download.
C33_Witness == /\ pc = "cancelled"
               /\ ~last_load.done
               /\ load_exit = "none"
               /\ military_database.none
               /\ other_pc = "fetching"
               /\ military_db_loading

(* ---------------------------------------------------------------------- *)
(* C34: metadata implies position                                          *)
(* ---------------------------------------------------------------------- *)
\* The identifiers of a sequence of position or metadata records.
IcaosOf(records) == {records[i].icao : i \in 1..Len(records)}

\* The position table ends with the batch of the tick.
BatchStored == /\ Len(aircraft_positions) >= Len(batch.positions)
               /\ SubSeq(aircraft_positions, Len(aircraft_positions) - Len(batch.positions) + 1, Len(aircraft_positions)) = batch.positions

\* C34: starting from empty tables, every identifier with a metadata row
\* has a position row, whichever statements of whichever ticks failed; the
\* upsert of a tick is reached only by the step in which the insert of that
\* tick succeeded, and while it is pending the table holds the batch; the
\* metadata records of a tick name only identifiers of its position batch;
\* and the metadata table changes only in the upsert, gaining rows only for
\* identifiers of the batch.
C34_MetadataImpliesPosition == /\ [](DOMAIN aircraft_metadata \subseteq IcaosOf(aircraft_positions))
                               /\ [][(pc' = "upsert" /\ pc # "upsert") => (InsertApplied /\ aircraft_positions' = aircraft_positions \o batch.positions)]_vars
                               /\ [](pc = "upsert" => (BatchStored /\ batch.positions # <<>>))
                               /\ [](pc \in {"insert", "upsert"} => IcaosOf(batch.metadata_updates) \subseteq IcaosOf(batch.positions))
                               /\ [][aircraft_metadata' # aircraft_metadata => (pc = "upsert" /\ DOMAIN aircraft_metadata' \subseteq DOMAIN aircraft_metadata \cup IcaosOf(batch.positions))]_vars
                               /\ [][(pc = "insert" /\ persisted' = "insert_failed") => (pc' = "sleep" /\ aircraft_metadata' = aircraft_metadata)]_vars

\* A first tick stored abc123 with its metadata; in the next the insert
\* of a batch holding def456 with registration failed: def456 has neither
\* a position row nor a metadata row.
C34_Witness == /\ persisted = "insert_failed"
               /\ pc = "sleep"
               /\ DOMAIN aircraft_metadata = {"abc123"}
               /\ IcaosOf(aircraft_positions) = {"abc123"}
               /\ batch.metadata_updates # <<>>
               /\ IcaosOf(batch.metadata_updates) = {"def456"}
               /\ Len(last_data.aircraft) = 2
               /\ ~Retained(last_data.aircraft[1])
               /\ WantsMetadata(last_data.aircraft[1])

====
